---- MODULE Spec2Model ----
(***************************************************************************)
(* Model of the logic-mcp session engine (internal/prolog Engine): one     *)
(* engine, its mutex, its knowledge base (facts), its closed flag, and a   *)
(* set of goroutines calling Query, LoadFacts, ClearKnowledgeBase, Close,  *)
(* GetLoadedFacts and ValidateQuery; of the tools built on the engine      *)
(* (LogicTools.CallTool and its handlers, and the solve-problem handler    *)
(* registered with the SDK server); and of the protocol front-end          *)
(* (Server.ServeSTDIO, Server.handleRequest).                              *)
(*                                                                         *)
(* Go strings are modelled as sequences of one-character strings, so that  *)
(* strings.TrimSpace, strings.Split, HasPrefix and HasSuffix are computed  *)
(* and not assumed.  QueryResult.ExecutionTime is not modelled.            *)
(***************************************************************************)
EXTENDS Integers, Sequences, FiniteSets, TLC

VARIABLES
    closed,     \* Engine.closed
    facts,      \* Engine.facts: sequence of statements (each a string)
    tempFiles,  \* Engine.tempFiles: names handed out by createTempFile
    mutex,      \* Engine.mutex: NoHolder or the goroutine that holds it
    now,        \* the clock read by createTempFile (time.Now().UnixNano())
    pc,         \* per goroutine: where it stands in the method it called
    op,         \* per goroutine: the method it called
    arg,        \* per goroutine: the string argument of the call
    res,        \* per goroutine: the value the call returned
    lines,      \* per goroutine in LoadFacts: the lines still to be processed
    prog,       \* per goroutine in Query: the program handed to the solver, and how its run ended
    entryFacts, \* history: per goroutine in LoadFacts, the facts its loop started from
    tool,       \* per goroutine: the tool handler it is in (name, arguments, position, text so far)
    result,     \* per goroutine: what CallTool returned (ToolResult or error)
    request,    \* per goroutine: the MCPRequest it is handling
    stdout,     \* the MCPResponses the encoder has written, in order
    decoder,    \* the json.Decoder on stdin: "ok", or "err" once it keeps an error
    nread,      \* frames the decoder has consumed from stdin
    ctxDone,    \* the context passed to ServeSTDIO and on to Query has been cancelled
    loop,       \* where ServeSTDIO stands: "select", "decode" (in decoder.Decode) or "returned"
    waiting,    \* history: the goroutines blocked in e.mutex.Lock(), in the order they blocked
    sess,       \* per session of the HTTP mode: its engine and where its call stands
    files,      \* the files in os.TempDir(), by name
    nano        \* the clock time.Now().UnixNano()

engineVars == <<closed, facts, tempFiles, mutex, now, pc, op, arg, res, lines, prog, entryFacts>>
toolVars == <<tool, result>>
protoVars == <<request, stdout, decoder, nread, ctxDone, loop>>
sessionVars == <<sess, files, nano>>
vars == <<closed, facts, tempFiles, mutex, now, pc, op, arg, res, lines, prog, entryFacts,
          tool, result, request, stdout, decoder, nread, ctxDone, loop, waiting,
          sess, files, nano>>

----------------------------------------------------------------------------
(* Bounds of the model. *)

NumProcs == 2       \* goroutines calling into the engine
MaxFacts == 4       \* a LoadFacts call starts only while it fits in this many statements
MaxClock == 2       \* Query calls start only while the clock is below this
MaxTextLen == 4     \* longest text of the exhaustive LoadFacts / ValidateQuery inputs
MaxQueries == 3     \* tool calls start only while their queries keep the clock within this
MaxFrames == 2      \* frames the decoder reads from stdin
MaxStdout == 3      \* a kept decode error is answered only while stdout holds fewer responses
NumSessions == 2    \* sessions the HTTP mode serves, each with its own engine
MaxNano == 1        \* the clock of the sessions advances only up to this

Procs == 1 .. NumProcs
NoHolder == 0
Nil == <<"nil">>

----------------------------------------------------------------------------
(* Characters and the strings library. *)

NL == "\n"
Dot == "."
Pct == "%"

IsSpace(c) == c \in {" ", NL, "\t"}

MinOf(S) == CHOOSE x \in S : \A y \in S : x <= y
MaxOf(S) == CHOOSE x \in S : \A y \in S : y <= x

TrimSpace(s) ==
    LET keep == {i \in 1 .. Len(s) : ~IsSpace(s[i])}
    IN  IF keep = {} THEN <<>> ELSE SubSeq(s, MinOf(keep), MaxOf(keep))

HasSuffix(s, c) == Len(s) > 0 /\ s[Len(s)] = c
HasPrefix(s, c) == Len(s) > 0 /\ s[1] = c

TrimSuffix(s, c) == IF HasSuffix(s, c) THEN SubSeq(s, 1, Len(s) - 1) ELSE s

RECURSIVE Split(_)
Split(s) ==
    LET nls == {i \in 1 .. Len(s) : s[i] = NL}
    IN  IF nls = {} THEN <<s>>
        ELSE <<SubSeq(s, 1, MinOf(nls) - 1)>> \o Split(SubSeq(s, MinOf(nls) + 1, Len(s)))

----------------------------------------------------------------------------
(* Values returned by the engine's methods. *)

ErrClosed == [err |-> "engine is closed"]
NoErr == [err |-> "nil"]

\* ValidateQuery's errors; the balance errors wrap validateBalanced's error.
ErrEmptyQuery == [err |-> "empty query"]
ErrNoPeriod == [err |-> "query must end with a period"]
ErrParens(inner) == [err |-> "unbalanced parentheses", wraps |-> inner]
ErrBrackets(inner) == [err |-> "unbalanced brackets", wraps |-> inner]

\* A QueryResult together with Query's error value.
QueryOutcome(success, output, error) ==
    [err |-> "nil", Success |-> success, Output |-> output, Error |-> error]

----------------------------------------------------------------------------
(* Values of the tool layer and of the protocol front-end. *)

\* A decoded JSON value (interface{}): its kind and, for a string, its
\* characters, for an array, its elements.  Absent is what a map lookup of a
\* missing key gives (nil).
Str(s) == [kind |-> "string", v |-> s]
Arr(items) == [kind |-> "array", v |-> items]
Num == [kind |-> "number", v |-> <<>>]
Absent == [kind |-> "absent", v |-> <<>>]
IsString(x) == x.kind = "string"

\* An argument map (map[string]interface{}) over the keys the handlers read.
ArgKeys == {"query", "facts", "code", "problem_description", "facts_and_rules", "queries"}
NoArgs == [k \in ArgKeys |-> Absent]
With(args, key, value) == [args EXCEPT ![key] = value]

\* One piece of the text of a ToolResult: which message it is and the values
\* formatted into it.
Line(msg) ==
    [msg |-> msg, i |-> 0, query |-> <<>>, success |-> FALSE, error |-> "", output |-> <<>>]
QueryLine(msg, i, query, r) ==
    [msg |-> msg, i |-> i, query |-> query, success |-> r.Success, error |-> r.Error,
     output |-> r.Output]
FailedLine(msg, i, query, e) ==
    [msg |-> msg, i |-> i, query |-> query, success |-> FALSE, error |-> e.err, output |-> <<>>]

\* What CallTool returns: a ToolResult and a nil error, or a nil result and
\* an error.  NoResult: nothing returned yet.
ToolResult(text, isError) == [err |-> "nil", set |-> TRUE, text |-> text, isError |-> isError]
DispatchError(e) == [err |-> e, set |-> FALSE, text |-> <<>>, isError |-> FALSE]
NoResult == [err |-> "none", set |-> FALSE, text |-> <<>>, isError |-> FALSE]

\* The handler a goroutine is in.
NoTool ==
    [name |-> "", impl |-> "", args |-> NoArgs, at |-> "none", text |-> <<>>,
     rest |-> <<>>, i |-> 0, ran |-> <<>>]

\* The params of an MCPRequest (interface{}): a JSON object or something
\* else; of an object, the values under "name" and "uri", and the argument
\* map under "arguments" when that is an object.
Params(name, uri, hasArguments, arguments) ==
    [kind |-> "object", name |-> name, uri |-> uri, hasArguments |-> hasArguments,
     arguments |-> arguments]
NoParams ==
    [kind |-> "other", name |-> Absent, uri |-> Absent, hasArguments |-> FALSE,
     arguments |-> NoArgs]

\* MCPRequest.  The id 0 stands for a nil ID.
NilID == 0
Request(id, method, params) == [id |-> id, method |-> method, params |-> params]
NoRequest == Request(NilID, "", NoParams)

\* MCPResponse: Result and Error, either of which may be nil.
NilResult == [kind |-> "nil", tool |-> NoResult]
NilError == [code |-> 0, message |-> ""]
ResultResponse(id, kind, toolResult) ==
    [id |-> id, result |-> [kind |-> kind, tool |-> toolResult], error |-> NilError]
ErrorResponse(id, code, message) ==
    [id |-> id, result |-> NilResult, error |-> [code |-> code, message |-> message]]

ParseError == 0 - 32700
MethodNotFound == 0 - 32601
InvalidParams == 0 - 32602
InternalError == 0 - 32603

\* The tool layer and the front-end before any call or request.
InitServer ==
    /\ tool = [p \in Procs |-> NoTool]
    /\ result = [p \in Procs |-> NoResult]
    /\ request = [p \in Procs |-> NoRequest]
    /\ stdout = <<>>
    /\ decoder = "ok"
    /\ nread = 0
    /\ ctxDone = FALSE
    /\ loop = "select"

----------------------------------------------------------------------------
(* The syntax validator. *)

\* validateBalanced: the loop over the characters of s from position i on,
\* with the running count; it returns at the first closing character that
\* makes the count negative.
RECURSIVE balancedFrom(_, _, _, _, _)
balancedFrom(s, open, close, i, count) ==
    IF i > Len(s)
    THEN IF count # 0 THEN "unmatched opening" ELSE "nil"
    ELSE IF s[i] = open
         THEN balancedFrom(s, open, close, i + 1, count + 1)
         ELSE IF s[i] = close
              THEN IF count - 1 < 0
                   THEN "unmatched closing"
                   ELSE balancedFrom(s, open, close, i + 1, count - 1)
              ELSE balancedFrom(s, open, close, i + 1, count)

validateBalanced(s, open, close) == balancedFrom(s, open, close, 1, 0)

ValidateQueryBracketsFirst(text) ==
    LET query == TrimSpace(text)
    IN  IF query = <<>> THEN ErrEmptyQuery
        ELSE IF ~HasSuffix(query, Dot) THEN ErrNoPeriod
        ELSE IF validateBalanced(query, "[", "]") # "nil"
             THEN ErrBrackets(validateBalanced(query, "[", "]"))
        ELSE IF validateBalanced(query, "(", ")") # "nil"
             THEN ErrParens(validateBalanced(query, "(", ")"))
        ELSE NoErr

ValidateQuery(text) ==
    LET query == TrimSpace(text)
    IN  IF query = <<>> THEN ErrEmptyQuery
        ELSE IF ~HasSuffix(query, Dot) THEN ErrNoPeriod
        ELSE IF validateBalanced(query, "(", ")") # "nil"
             THEN ErrParens(validateBalanced(query, "(", ")"))
        ELSE IF validateBalanced(query, "[", "]") # "nil"
             THEN ErrBrackets(validateBalanced(query, "[", "]"))
        ELSE NoErr

----------------------------------------------------------------------------
(* Inputs.  The concurrent specification gives each method the few texts
   that take every path of its code; the sequential specification gives one
   goroutine more of them; the exhaustive specifications draw every text up
   to MaxTextLen over the characters the code distinguishes. *)

\* LoadFacts: a terminated statement, a comment, a blank line and an
\* indented statement without its period.
FactTexts == { <<"b", ".", NL, "%", "c", NL, NL, " ", "a">> }

\* Query: a text that is empty after trimming, and a goal without its period.
QueryTexts == { <<" ">>, <<"a">> }

SeqFactTexts ==
    FactTexts \cup { <<"a">>, <<"a", ".", NL, "a", ".">>, <<"%", "c">>, <<>> }

SeqQueryTexts ==
    QueryTexts \cup { <<>>, <<" ", "a", ".", " ">>, <<"a", ".">> }

SeqValidateTexts ==
    { <<"a", "(", "[", "]", ")", ".">>, <<"a">>, <<"a", "(", ".">>, <<>> }

RECURSIVE TextsOver(_, _)
TextsOver(chars, n) ==
    IF n = 0 THEN { <<>> }
    ELSE LET shorter == TextsOver(chars, n - 1)
         IN  shorter \cup { Append(t, c) : t \in shorter, c \in chars }

FactChars == { "a", Dot, " ", Pct, NL }
QueryChars == { "a", Dot, " ", "(", ")", "[", "]" }

\* The validator examples of the engine's tests and documentation.
MemberQuery ==
    <<"m","e","m","b","e","r","(","X",","," ","[","1",",","2",",","3","]",")",".">>
MemberQueryNoPeriod == SubSeq(MemberQuery, 1, Len(MemberQuery) - 1)
MemberQueryOpenParen ==
    <<"m","e","m","b","e","r","(","X",","," ","[","1",",","2",",","3",")",".">>
FooOpenParen == <<"f","o","o","(","1",",","2",".">>

AllFactTexts == TextsOver(FactChars, MaxTextLen)
AllValidateTexts ==
    TextsOver(QueryChars, MaxTextLen)
        \cup { MemberQuery, MemberQueryNoPeriod, MemberQueryOpenParen, FooOpenParen }

\* Knowledge bases a LoadFacts call can find.
PriorFacts == { <<>>, << <<"b", Dot>> >>, << <<"a", Dot>>, <<"a", Dot>> >> }

\* What one run of the solver process can end with: whether the process
\* failed (could not start, exited non-zero, was killed on cancellation) and
\* the combined output it produced, as a sequence of output chunks.
MarkerTrue == "SUCCESS: true"
MarkerFalse == "SUCCESS: false"
SolverRuns ==
    { [failed |-> FALSE, output |-> <<MarkerTrue>>],
      [failed |-> FALSE, output |-> <<MarkerFalse>>],
      [failed |-> FALSE, output |-> <<>>],
      [failed |-> TRUE,  output |-> <<"Warning: goal (directive) failed">>],
      [failed |-> TRUE,  output |-> <<>>] }

\* The outcomes the concurrent specification lets a solver run end with.
GateRuns ==
    { [failed |-> FALSE, output |-> <<MarkerTrue>>],
      [failed |-> TRUE,  output |-> <<>>] }

\* strings.Contains(outputStr, marker) on the chunks of the output
Contains(output, marker) == \E i \in 1 .. Len(output) : output[i] = marker

----------------------------------------------------------------------------
(* Tool calls and frames given to the tool layer and to the front-end. *)

QA == <<"a">>
QB == <<"b">>
RulesA == <<"a">>
RulesB == <<"b", NL, Pct, NL, " ", "c", Dot>>

Tool(name, args) == [name |-> name, args |-> args]

SolveArgs(description, rules, queries) ==
    [NoArgs EXCEPT !["problem_description"] = description,
                   !["facts_and_rules"] = rules,
                   !["queries"] = queries]

\* The lists of queries: strings and elements that are not strings.
QueryLists ==
    { <<>>, <<Str(QA)>>, <<Num, Str(QA)>>, <<Str(QA), Num, Str(QB)>>,
      <<Str(QA), Str(QB), Str(QA)>> }
StringLists == { <<>>, <<Str(QA), Str(QB)>>, <<Str(QA), Str(QB), Str(QA)>> }

SolveCalls ==
    { Tool("prolog_solve_problem", SolveArgs(Str(<<"d">>), Str(RulesB), Arr(l))) : l \in QueryLists }
      \cup { Tool("prolog_solve_problem", SolveArgs(Absent, Str(RulesA), Arr(<<Str(QA)>>))),
             Tool("prolog_solve_problem", SolveArgs(Str(<<"d">>), Num, Arr(<<Str(QA)>>))),
             Tool("prolog_solve_problem", SolveArgs(Str(<<"d">>), Str(RulesA), Str(QA))) }

ExplainCalls ==
    { Tool("prolog_explain_solution", [NoArgs EXCEPT !["query"] = qf[1], !["facts"] = qf[2]]) :
        qf \in { <<Str(QA), Absent>>, <<Str(QA), Str(RulesA)>>, <<Str(QA), Num>>,
                 <<Str(QA), Str(<<>>)>>, <<Absent, Str(RulesA)>> } }

ToolCalls ==
    { Tool("prolog_query", With(NoArgs, "query", x)) : x \in {Str(QA), Num, Absent} }
      \cup { Tool("prolog_load_facts", With(NoArgs, "facts", x)) : x \in {Str(RulesA), Absent} }
      \cup { Tool("prolog_validate_syntax", With(NoArgs, "code", x)) :
               x \in {Str(<<"a", Dot>>), Str(<<"a", "(", Dot>>), Num} }
      \cup { Tool("prolog_clear_kb", NoArgs), Tool("prolog_unknown", NoArgs) }
      \cup SolveCalls
      \cup ExplainCalls

\* The typed inputs of the registered solve-problem handler.
ProblemInputs == { SolveArgs(Str(<<"d">>), Str(RulesB), Arr(l)) : l \in StringLists }

\* The frames on stdin: requests of every method, tools/call and
\* resources/read requests with params of every shape the handlers tell
\* apart, a frame that does not fit MCPRequest and a frame that is not JSON.
Frame(kind, method, params) == [kind |-> kind, method |-> method, params |-> params]
ToolFrame(name, hasArguments, arguments) ==
    Frame("request", "tools/call", Params(Str(<<name>>), Absent, hasArguments, arguments))
ReadFrame(uri) == Frame("request", "resources/read", Params(Absent, uri, FALSE, NoArgs))

ToolFrames ==
    { ToolFrame("prolog_query", TRUE, With(NoArgs, "query", Str(QA))),
      ToolFrame("prolog_query", FALSE, NoArgs),
      ToolFrame("prolog_load_facts", TRUE, With(NoArgs, "facts", Str(RulesA))),
      ToolFrame("prolog_validate_syntax", TRUE, With(NoArgs, "code", Str(<<"a", "(", Dot>>))),
      ToolFrame("prolog_clear_kb", FALSE, NoArgs),
      ToolFrame("prolog_solve_problem", TRUE,
                SolveArgs(Str(<<"d">>), Str(RulesB), Arr(<<Num, Str(QA)>>))),
      ToolFrame("prolog_explain_solution", TRUE,
                [NoArgs EXCEPT !["query"] = Str(QA), !["facts"] = Str(RulesA)]),
      ToolFrame("prolog_unknown", FALSE, NoArgs) }

Frames ==
    { Frame("request", m, NoParams) :
        m \in {"initialize", "tools/list", "resources/list", "ping", "tools/call",
               "resources/read"} }
      \cup { Frame("request", "tools/call", Params(x, Absent, TRUE, NoArgs)) : x \in {Absent, Num} }
      \cup ToolFrames
      \cup { ReadFrame(x) :
               x \in {Absent, Num, Str(<<"prolog://examples/", "basic">>),
                      Str(<<"prolog://examples/", "none">>)} }
      \cup { Frame("mistyped", "", NoParams), Frame("syntax", "", NoParams) }

\* The solver outcomes of the tool specifications: the goal proved or not.
ToolRuns ==
    { [failed |-> FALSE, output |-> <<MarkerTrue>>],
      [failed |-> FALSE, output |-> <<MarkerFalse>>] }

----------------------------------------------------------------------------
(* Values of the sessions of the HTTP mode: every session has an engine of
   its own; the engines share the directory os.TempDir(). *)

Sessions == 1 .. NumSessions
Names == 0 .. MaxNano

\* A file of os.TempDir(): whether it exists, the session whose Query
\* created it (by), the session whose Query wrote its content last (from),
\* and the program it holds (knowledge base and goal).  ioutil.WriteFile
\* creates the file when there is none and truncates the one that exists.
NoFile == [exists |-> FALSE, by |-> 0, from |-> 0, kb |-> <<>>, goal |-> <<>>]
File(old, s, kb, goal) ==
    [exists |-> TRUE, by |-> IF old.exists THEN old.by ELSE s, from |-> s,
     kb |-> kb, goal |-> goal]

\* A call of a tool that a session serves: the tool, the text it loads and
\* the query it runs.
ToolCall(name, text, query) == [tool |-> name, facts |-> text, query |-> query]
NoCall == ToolCall("", <<>>, <<>>)

\* How Query ended in a session: not yet, or with a QueryResult.
NoOutcome == [err |-> "none", Success |-> FALSE, Output |-> <<>>, Error |-> ""]

\* A session: where its call stands (at), the call, the fields of its engine
\* (facts, tempFiles), the local tempFile of executeQueryBatch (name), the
\* file the solver process read (ran) and what Query returns (res).
NoSession ==
    [at |-> "none", call |-> NoCall, facts |-> <<>>, tempFiles |-> <<>>, name |-> 0,
     ran |-> NoFile, res |-> NoOutcome]

InitSessions ==
    /\ sess = [s \in Sessions |-> NoSession]
    /\ files = [n \in Names |-> NoFile]
    /\ nano = 0

----------------------------------------------------------------------------
(* The engine. *)

Init ==
    /\ closed = FALSE
    /\ facts = <<>>
    /\ tempFiles = <<>>
    /\ mutex = NoHolder
    /\ now = 0
    /\ pc = [p \in Procs |-> "idle"]
    /\ op = [p \in Procs |-> "none"]
    /\ arg = [p \in Procs |-> Nil]
    /\ res = [p \in Procs |-> Nil]
    /\ lines = [p \in Procs |-> <<>>]
    /\ prog = [p \in Procs |-> Nil]
    /\ entryFacts = [p \in Procs |-> Nil]
    /\ InitServer
    /\ waiting = <<>>
    /\ InitSessions

\* The statement LoadFacts stores for one line, after strings.TrimSpace.
keepLineAll(line) == line # <<>>
keepLine(line) == line # <<>> /\ ~HasPrefix(line, Pct)

terminateAlways(line) == line \o <<Dot>>
terminate(line) == IF ~HasSuffix(line, Dot) THEN line \o <<Dot>> ELSE line

\* How many statements LoadFacts(text) appends (used only to bound the model).
KeptCount(text) ==
    Cardinality({i \in 1 .. Len(Split(text)) : keepLine(TrimSpace(Split(text)[i]))})

\* A goroutine calls a method: it records the call and goes to the method's
\* first statement (for the gated methods, e.mutex.Lock()).
Call(p, method, text, first) ==
    /\ pc[p] = "idle"
    /\ pc' = [pc EXCEPT ![p] = first]
    /\ op' = [op EXCEPT ![p] = method]
    /\ arg' = [arg EXCEPT ![p] = text]
    /\ UNCHANGED <<closed, facts, tempFiles, mutex, now, res, lines, prog, entryFacts>>

\* Query calls that have not read the clock yet.
QueriesAhead == Cardinality({q \in Procs : pc[q] \in {"q_lock", "q_in", "q_build"}})

QueryCall(p, texts) ==
    /\ now + QueriesAhead < MaxClock
    /\ \E t \in texts : Call(p, "Query", t, "q_lock")

\* Statements the LoadFacts calls under way will still append.
RECURSIVE StatementsAhead(_)
StatementsAhead(S) ==
    IF S = {} THEN 0
    ELSE LET q == CHOOSE x \in S : TRUE
             n == IF pc[q] \in {"l_lock", "l_in"} THEN KeptCount(arg[q])
                  ELSE IF pc[q] = "l_loop"
                       THEN Cardinality({i \in 1 .. Len(lines[q]) : keepLine(TrimSpace(lines[q][i]))})
                       ELSE 0
         IN  n + StatementsAhead(S \ {q})

LoadFactsCall(p, texts) ==
    \E t \in texts :
        /\ Len(facts) + StatementsAhead(Procs) + KeptCount(t) <= MaxFacts
        /\ Call(p, "LoadFacts", t, "l_lock")

ClearKnowledgeBaseCall(p) == Call(p, "ClearKnowledgeBase", Nil, "c_lock")
CloseCall(p) == Call(p, "Close", Nil, "x_lock")
GetLoadedFactsCall(p) == Call(p, "GetLoadedFacts", Nil, "g_lock")
ValidateQueryCall(p, texts) == \E t \in texts : Call(p, "ValidateQuery", t, "v_in")

\* e.mutex.Lock(): blocks until the mutex is free, then holds it.
LockPc == {"q_lock", "l_lock", "c_lock", "x_lock", "g_lock"}
Entered(at) ==
    CASE at = "q_lock" -> "q_in"
      [] at = "l_lock" -> "l_in"
      [] at = "c_lock" -> "c_in"
      [] at = "x_lock" -> "x_in"
      [] at = "g_lock" -> "g_in"

mutexFreeAlways(p) == TRUE
mutexFree(p) == mutex = NoHolder

\* e.mutex.Lock() that lets Close through while another goroutine holds the
\* mutex.
LockLetsCloseThrough(p) ==
    /\ pc[p] \in LockPc
    /\ (mutexFree(p) \/ pc[p] = "x_lock")
    /\ mutex' = p
    /\ pc' = [pc EXCEPT ![p] = Entered(pc[p])]
    /\ UNCHANGED <<closed, facts, tempFiles, now, op, arg, res, lines, prog, entryFacts>>

Lock(p) ==
    /\ pc[p] \in LockPc
    /\ mutexFree(p)
    /\ mutex' = p
    /\ pc' = [pc EXCEPT ![p] = Entered(pc[p])]
    /\ UNCHANGED <<closed, facts, tempFiles, now, op, arg, res, lines, prog, entryFacts>>

\* The goroutines blocked in e.mutex.Lock() after a step, that is, standing
\* at Lock while another goroutine holds the mutex: those that were blocked
\* and still stand at Lock, in their order, followed by those the step left
\* blocked.
Arrivals ==
    waiting' = SelectSeq(waiting, LAMBDA q : pc'[q] \in LockPc)
                  \o SelectSeq([q \in Procs |-> q],
                               LAMBDA q : /\ \A k \in DOMAIN waiting : waiting[k] # q
                                          /\ pc'[q] \in LockPc
                                          /\ mutex' # NoHolder)

\* What a step of the goroutines of one engine leaves of the rest: the order
\* of arrival follows the step, the sessions of the HTTP mode stand still.
Elsewhere == Arrivals /\ UNCHANGED sessionVars

\* A method returns value v: the deferred e.mutex.Unlock() runs.
ReturnUnlock(p, v) ==
    /\ pc' = [pc EXCEPT ![p] = "done"]
    /\ res' = [res EXCEPT ![p] = v]
    /\ mutex' = NoHolder
    /\ entryFacts' = [entryFacts EXCEPT ![p] = Nil]


\* Query, from the closed check to the call of executeQueryBatch: the closed
\* engine and the empty query return at once; otherwise the local query gets
\* its period when the trimmed text has none.
QueryEnterRunsEmptyText(p) ==
    /\ pc[p] = "q_in"
    /\ IF closed
       THEN /\ ReturnUnlock(p, ErrClosed)
            /\ UNCHANGED arg
       ELSE /\ arg' = [arg EXCEPT ![p] =
                         IF ~HasSuffix(TrimSpace(arg[p]), Dot)
                         THEN TrimSpace(arg[p]) \o <<Dot>>
                         ELSE arg[p]]
            /\ pc' = [pc EXCEPT ![p] = "q_build"]
            /\ UNCHANGED <<res, mutex, entryFacts>>
    /\ UNCHANGED <<closed, facts, tempFiles, now, op, lines, prog>>

QueryEnter(p) ==
    /\ pc[p] = "q_in"
    /\ IF closed
       THEN /\ ReturnUnlock(p, ErrClosed)
            /\ UNCHANGED arg
       ELSE IF TrimSpace(arg[p]) = <<>>
       THEN /\ ReturnUnlock(p, QueryOutcome(FALSE, <<>>, "Empty query provided"))
            /\ UNCHANGED arg
       ELSE /\ arg' = [arg EXCEPT ![p] =
                         IF ~HasSuffix(TrimSpace(arg[p]), Dot)
                         THEN TrimSpace(arg[p]) \o <<Dot>>
                         ELSE arg[p]]
            /\ pc' = [pc EXCEPT ![p] = "q_build"]
            /\ UNCHANGED <<res, mutex, entryFacts>>
    /\ UNCHANGED <<closed, facts, tempFiles, now, op, lines, prog>>

\* executeQueryBatch up to the start of the solver: createTempFile hands out
\* a name made of the clock, the program is the facts followed by the driver
\* clause around the goal, and ioutil.WriteFile writes it or fails.
QueryBuildWriteFailureIsError(p) ==
    /\ pc[p] = "q_build"
    /\ tempFiles' = Append(tempFiles, now)
    /\ now' = now + 1
    /\ \/ /\ prog' = [prog EXCEPT ![p] =
                        [file |-> now, kb |-> facts, goal |-> TrimSuffix(arg[p], Dot)]]
          /\ pc' = [pc EXCEPT ![p] = "q_run"]
          /\ UNCHANGED <<res, mutex, entryFacts>>
       \/ /\ ReturnUnlock(p, [err |-> "failed to write query file"])
          /\ UNCHANGED prog
    /\ UNCHANGED <<closed, facts, op, arg, lines>>

QueryBuild(p) ==
    /\ pc[p] = "q_build"
    /\ tempFiles' = Append(tempFiles, now)
    /\ now' = now + 1
    /\ \/ /\ prog' = [prog EXCEPT ![p] =
                        [file |-> now, kb |-> facts, goal |-> TrimSuffix(arg[p], Dot)]]
          /\ pc' = [pc EXCEPT ![p] = "q_run"]
          /\ UNCHANGED <<res, mutex, entryFacts>>
       \/ /\ ReturnUnlock(p, QueryOutcome(FALSE, <<>>, "failed to write query file"))
          /\ UNCHANGED prog
    /\ UNCHANGED <<closed, facts, op, arg, lines>>

\* exec.CommandContext(ctx, ...): under a context that is done the process
\* is not started or is killed, and cmd.CombinedOutput() returns an error;
\* otherwise the process ends in one of the given ways.
Killed == { [failed |-> TRUE, output |-> <<>>] }
CommandIgnoresContext(runs) == runs
CommandContext(runs) == IF ctxDone THEN Killed ELSE runs

\* A goal that the solver never finishes, such as `repeat, fail`.
Endless == <<"repeat, fail">>

\* cmd.CombinedOutput() waits until the process has ended: the solver ends
\* by itself on a goal that halts, and is killed when the context is done;
\* executeQueryBatch sets no deadline of its own.
ProcessEnds(program) == ctxDone \/ program.goal # Endless

\* executeQueryBatch from cmd.CombinedOutput() on: the solver runs once and
\* its outcome is classified.  How the process ended is kept with the
\* program it ran (prog[p].run).
QueryRunResetsOnFailure(p, runs) ==
    /\ pc[p] = "q_run"
    /\ \E r \in runs :
          /\ ReturnUnlock(p, IF r.failed
                             THEN QueryOutcome(FALSE, r.output, "execution failed")
                             ELSE QueryOutcome(Contains(r.output, MarkerTrue), r.output, ""))
          /\ facts' = IF r.failed THEN <<>> ELSE facts
          /\ prog' = [prog EXCEPT ![p] = [file |-> prog[p].file, kb |-> prog[p].kb,
                                          goal |-> prog[p].goal, run |-> r]]
    /\ UNCHANGED <<closed, tempFiles, now, op, arg, lines>>

QueryRunDropsOutputOnFailure(p, runs) ==
    /\ pc[p] = "q_run"
    /\ \E r \in runs :
          /\ ReturnUnlock(p, IF r.failed
                             THEN QueryOutcome(FALSE, <<>>, "execution failed")
                             ELSE QueryOutcome(Contains(r.output, MarkerTrue), r.output, ""))
          /\ prog' = [prog EXCEPT ![p] = [file |-> prog[p].file, kb |-> prog[p].kb,
                                          goal |-> prog[p].goal, run |-> r]]
    /\ UNCHANGED <<closed, facts, tempFiles, now, op, arg, lines>>

QueryRunRetriesOnFailure(p, runs) ==
    /\ pc[p] = "q_run"
    /\ \E r \in CommandContext(runs) :
          /\ IF r.failed /\ "run" \notin DOMAIN prog[p]
             THEN UNCHANGED <<pc, res, mutex, entryFacts>>
             ELSE ReturnUnlock(p, IF r.failed
                                  THEN QueryOutcome(FALSE, r.output, "execution failed")
                                  ELSE QueryOutcome(Contains(r.output, MarkerTrue), r.output, ""))
          /\ prog' = [prog EXCEPT ![p] = [file |-> prog[p].file, kb |-> prog[p].kb,
                                          goal |-> prog[p].goal, run |-> r]]
    /\ UNCHANGED <<closed, facts, tempFiles, now, op, arg, lines>>

QueryRun(p, runs) ==
    /\ pc[p] = "q_run"
    /\ ProcessEnds(prog[p])
    /\ \E r \in CommandContext(runs) :
          /\ ReturnUnlock(p, IF r.failed
                             THEN QueryOutcome(FALSE, r.output, "execution failed")
                             ELSE QueryOutcome(Contains(r.output, MarkerTrue), r.output, ""))
          /\ prog' = [prog EXCEPT ![p] = [file |-> prog[p].file, kb |-> prog[p].kb,
                                          goal |-> prog[p].goal, run |-> r]]
    /\ UNCHANGED <<closed, facts, tempFiles, now, op, arg, lines>>

\* LoadFacts, from the closed check to strings.Split.
LoadFactsEnter(p) ==
    /\ pc[p] = "l_in"
    /\ IF closed
       THEN /\ ReturnUnlock(p, ErrClosed)
            /\ UNCHANGED lines
       ELSE /\ lines' = [lines EXCEPT ![p] = Split(arg[p])]
            /\ pc' = [pc EXCEPT ![p] = "l_loop"]
            /\ entryFacts' = [entryFacts EXCEPT ![p] = facts]
            /\ UNCHANGED <<res, mutex>>
    /\ UNCHANGED <<closed, facts, tempFiles, now, op, arg, prog>>

\* LoadFacts: one iteration of the loop over the lines, or the return after
\* the last one.
LoadFactsLoop(p) ==
    /\ pc[p] = "l_loop"
    /\ IF lines[p] = <<>>
       THEN /\ ReturnUnlock(p, NoErr)
            /\ UNCHANGED <<facts, lines>>
       ELSE LET line == TrimSpace(Head(lines[p]))
            IN  /\ facts' = IF keepLine(line) THEN Append(facts, terminate(line)) ELSE facts
                /\ lines' = [lines EXCEPT ![p] = Tail(lines[p])]
                /\ UNCHANGED <<pc, res, mutex, entryFacts>>
    /\ UNCHANGED <<closed, tempFiles, now, op, arg, prog>>

\* ClearKnowledgeBase after the lock.
clearedKeepsFacts == facts
cleared == <<>>

ClearKnowledgeBaseUnchecked(p) ==
    /\ pc[p] = "c_in"
    /\ facts' = cleared
    /\ ReturnUnlock(p, NoErr)
    /\ UNCHANGED <<closed, tempFiles, now, op, arg, lines, prog>>

ClearKnowledgeBase(p) ==
    /\ pc[p] = "c_in"
    /\ IF closed
       THEN /\ ReturnUnlock(p, ErrClosed)
            /\ UNCHANGED facts
       ELSE /\ facts' = cleared
            /\ ReturnUnlock(p, NoErr)
    /\ UNCHANGED <<closed, tempFiles, now, op, arg, lines, prog>>

\* Close after the lock.  The files on disk that os.Remove deletes are not
\* part of this model; the list of their names is.
CloseAgainFails(p) ==
    /\ pc[p] = "x_in"
    /\ IF closed
       THEN /\ ReturnUnlock(p, ErrClosed)
            /\ UNCHANGED <<closed, tempFiles>>
       ELSE /\ tempFiles' = <<>>
            /\ closed' = TRUE
            /\ ReturnUnlock(p, NoErr)
    /\ UNCHANGED <<facts, now, op, arg, lines, prog>>

Close(p) ==
    /\ pc[p] = "x_in"
    /\ IF closed
       THEN /\ ReturnUnlock(p, NoErr)
            /\ UNCHANGED <<closed, tempFiles>>
       ELSE /\ tempFiles' = <<>>
            /\ closed' = TRUE
            /\ ReturnUnlock(p, NoErr)
    /\ UNCHANGED <<facts, now, op, arg, lines, prog>>

\* GetLoadedFacts after the lock: a copy of the facts, with no closed check.
GetLoadedFacts(p) ==
    /\ pc[p] = "g_in"
    /\ ReturnUnlock(p, [facts |-> facts])
    /\ UNCHANGED <<closed, facts, tempFiles, now, op, arg, lines, prog>>

\* ValidateQuery: no lock and no closed check.
ValidateQueryRun(p) ==
    /\ pc[p] = "v_in"
    /\ pc' = [pc EXCEPT ![p] = "done"]
    /\ res' = [res EXCEPT ![p] = ValidateQuery(arg[p])]
    /\ UNCHANGED <<closed, facts, tempFiles, mutex, now, op, arg, lines, prog, entryFacts>>

\* The caller takes the returned value; the goroutine is free for another call.
Return(p) ==
    /\ pc[p] = "done"
    /\ pc' = [pc EXCEPT ![p] = "idle"]
    /\ op' = [op EXCEPT ![p] = "none"]
    /\ arg' = [arg EXCEPT ![p] = Nil]
    /\ res' = [res EXCEPT ![p] = Nil]
    /\ lines' = [lines EXCEPT ![p] = <<>>]
    /\ prog' = [prog EXCEPT ![p] = Nil]
    /\ UNCHANGED <<closed, facts, tempFiles, mutex, now, entryFacts>>

----------------------------------------------------------------------------
(* The tools (LogicTools).  A handler runs on the goroutine that called
   CallTool; between its calls of the engine that goroutine is idle in the
   engine, and tool[p].at says where in the handler it stands. *)

ToolNames ==
    {"prolog_query", "prolog_load_facts", "prolog_validate_syntax", "prolog_clear_kb",
     "prolog_solve_problem", "prolog_explain_solution"}

\* CallTool: the switch on the tool's name.  A registered name enters its
\* handler; any other name returns a nil result and an error.
CallToolRunsUnknown(p, name, args) ==
    /\ tool[p].at = "none" /\ pc[p] = "idle" /\ result[p] = NoResult
    /\ tool' = [tool EXCEPT ![p] =
                  [NoTool EXCEPT !.name = IF name \in ToolNames THEN name ELSE "prolog_clear_kb",
                                 !.impl = "map", !.args = args, !.at = "start"]]
    /\ UNCHANGED result
    /\ UNCHANGED engineVars

CallTool(p, name, args) ==
    /\ tool[p].at = "none" /\ pc[p] = "idle" /\ result[p] = NoResult
    /\ IF name \in ToolNames
       THEN /\ tool' = [tool EXCEPT ![p] =
                          [NoTool EXCEPT !.name = name, !.impl = "map", !.args = args,
                                         !.at = "start"]]
            /\ UNCHANGED result
       ELSE /\ result' = [result EXCEPT ![p] = DispatchError("unknown tool")]
            /\ UNCHANGED tool
    /\ UNCHANGED engineVars

InHandler(p, name, at) == tool[p].impl = "map" /\ tool[p].name = name /\ tool[p].at = at

\* The handler returns r, which CallTool returns to its caller.
Finish(p, r) ==
    /\ tool' = [tool EXCEPT ![p] = NoTool]
    /\ result' = [result EXCEPT ![p] = r]

\* The handler goes on to position at with the text grown by the lines more.
Goto(p, at, more) ==
    /\ tool' = [tool EXCEPT ![p].at = at, ![p].text = tool[p].text \o more]
    /\ UNCHANGED result

BadArgument(msg) == ToolResult(<<Line(msg)>>, TRUE)

\* handleQuery that flags a result whose outcome has Success = false.
handleQueryFlagsFailure(p) ==
    /\ \/ /\ InHandler(p, "prolog_query", "start")
          /\ IF ~IsString(tool[p].args.query)
             THEN /\ Finish(p, BadArgument("Error: 'query' parameter must be a string"))
                  /\ UNCHANGED engineVars
             ELSE /\ Call(p, "Query", tool[p].args.query.v, "q_lock")
                  /\ Goto(p, "queried", <<>>)
       \/ /\ InHandler(p, "prolog_query", "queried")
          /\ Return(p)
          /\ Finish(p, IF res[p].err # "nil"
                       THEN ToolResult(<<FailedLine("Failed to execute query", 0,
                                                    tool[p].args.query.v, res[p])>>, TRUE)
                       ELSE ToolResult(<<QueryLine("Query result", 0,
                                                   tool[p].args.query.v, res[p])>>,
                                       ~res[p].Success))
    /\ UNCHANGED protoVars

\* handleQuery
handleQuery(p) ==
    /\ \/ /\ InHandler(p, "prolog_query", "start")
          /\ IF ~IsString(tool[p].args.query)
             THEN /\ Finish(p, BadArgument("Error: 'query' parameter must be a string"))
                  /\ UNCHANGED engineVars
             ELSE /\ Call(p, "Query", tool[p].args.query.v, "q_lock")
                  /\ Goto(p, "queried", <<>>)
       \/ /\ InHandler(p, "prolog_query", "queried")
          /\ Return(p)
          /\ Finish(p, IF res[p].err # "nil"
                       THEN ToolResult(<<FailedLine("Failed to execute query", 0,
                                                    tool[p].args.query.v, res[p])>>, TRUE)
                       ELSE ToolResult(<<QueryLine("Query result", 0,
                                                   tool[p].args.query.v, res[p])>>, FALSE))
    /\ UNCHANGED protoVars

\* handleLoadFacts
handleLoadFactsUnchecked(p) ==
    /\ \/ /\ InHandler(p, "prolog_load_facts", "start")
          /\ Call(p, "LoadFacts", tool[p].args.facts.v, "l_lock")
          /\ Goto(p, "loaded", <<>>)
       \/ /\ InHandler(p, "prolog_load_facts", "loaded")
          /\ Return(p)
          /\ Finish(p, IF res[p].err # "nil"
                       THEN ToolResult(<<FailedLine("Failed to load facts", 0, <<>>, res[p])>>, TRUE)
                       ELSE ToolResult(<<Line("Facts loaded successfully!")>>, FALSE))
    /\ UNCHANGED protoVars

handleLoadFacts(p) ==
    /\ \/ /\ InHandler(p, "prolog_load_facts", "start")
          /\ IF ~IsString(tool[p].args.facts)
             THEN /\ Finish(p, BadArgument("Error: 'facts' parameter must be a string"))
                  /\ UNCHANGED engineVars
             ELSE /\ Call(p, "LoadFacts", tool[p].args.facts.v, "l_lock")
                  /\ Goto(p, "loaded", <<>>)
       \/ /\ InHandler(p, "prolog_load_facts", "loaded")
          /\ Return(p)
          /\ Finish(p, IF res[p].err # "nil"
                       THEN ToolResult(<<FailedLine("Failed to load facts", 0, <<>>, res[p])>>, TRUE)
                       ELSE ToolResult(<<Line("Facts loaded successfully!")>>, FALSE))
    /\ UNCHANGED protoVars

\* handleValidateSyntax
handleValidateSyntax(p) ==
    /\ \/ /\ InHandler(p, "prolog_validate_syntax", "start")
          /\ IF ~IsString(tool[p].args.code)
             THEN /\ Finish(p, BadArgument("Error: 'code' parameter must be a string"))
                  /\ UNCHANGED engineVars
             ELSE /\ Call(p, "ValidateQuery", tool[p].args.code.v, "v_in")
                  /\ Goto(p, "validated", <<>>)
       \/ /\ InHandler(p, "prolog_validate_syntax", "validated")
          /\ Return(p)
          /\ Finish(p, IF res[p].err # "nil"
                       THEN ToolResult(<<FailedLine("Syntax validation failed", 0, <<>>, res[p])>>, TRUE)
                       ELSE ToolResult(<<Line("Syntax is valid!")>>, FALSE))
    /\ UNCHANGED protoVars

\* handleClearKB
handleClearKB(p) ==
    /\ \/ /\ InHandler(p, "prolog_clear_kb", "start")
          /\ Call(p, "ClearKnowledgeBase", Nil, "c_lock")
          /\ Goto(p, "cleared", <<>>)
       \/ /\ InHandler(p, "prolog_clear_kb", "cleared")
          /\ Return(p)
          /\ Finish(p, IF res[p].err # "nil"
                       THEN ToolResult(<<FailedLine("Failed to clear knowledge base", 0, <<>>,
                                                    res[p])>>, TRUE)
                       ELSE ToolResult(<<Line("Knowledge base cleared successfully!")>>, FALSE))
    /\ UNCHANGED protoVars

\* handleSolveProblem: the argument checks, then ClearKnowledgeBase, then
\* LoadFacts, then the loop over the queries.  tool[p].rest holds the
\* elements of the list still to come, tool[p].i the index of the last one
\* taken, tool[p].ran the texts passed to Query so far.
\* The elements left once Query has returned r for the first of rest: the
\* loop goes on to the next element whatever r is.
restAfterStopsOnFailure(rest, r) ==
    IF r.err # "nil" THEN <<>> ELSE IF ~r.Success THEN <<>> ELSE Tail(rest)
restAfter(rest, r) == Tail(rest)

handleSolveProblem(p) ==
    /\ \/ /\ InHandler(p, "prolog_solve_problem", "start")
          /\ IF ~IsString(tool[p].args.problem_description)
             THEN /\ Finish(p, BadArgument("Error: 'problem_description' parameter must be a string"))
                  /\ UNCHANGED engineVars
             ELSE IF ~IsString(tool[p].args.facts_and_rules)
             THEN /\ Finish(p, BadArgument("Error: 'facts_and_rules' parameter must be a string"))
                  /\ UNCHANGED engineVars
             ELSE IF tool[p].args.queries.kind # "array"
             THEN /\ Finish(p, BadArgument("Error: 'queries' parameter must be an array"))
                  /\ UNCHANGED engineVars
             ELSE /\ Call(p, "ClearKnowledgeBase", Nil, "c_lock")
                  /\ Goto(p, "cleared", <<Line("Solving Problem")>>)
       \/ /\ InHandler(p, "prolog_solve_problem", "cleared")
          /\ Return(p)
          /\ Goto(p, "load", IF res[p].err # "nil"
                             THEN <<FailedLine("Warning: Failed to clear knowledge base", 0,
                                               <<>>, res[p])>>
                             ELSE <<>>)
       \/ /\ InHandler(p, "prolog_solve_problem", "load")
          /\ Call(p, "LoadFacts", tool[p].args.facts_and_rules.v, "l_lock")
          /\ Goto(p, "loaded", <<Line("Loading facts and rules...")>>)
       \/ /\ InHandler(p, "prolog_solve_problem", "loaded")
          /\ Return(p)
          /\ IF res[p].err # "nil"
             THEN Finish(p, ToolResult(<<FailedLine("Failed to load facts and rules", 0, <<>>,
                                                    res[p])>>, TRUE))
             ELSE /\ tool' = [tool EXCEPT
                                ![p].at = "loop",
                                ![p].text = tool[p].text
                                              \o <<Line("Facts and rules loaded successfully!"),
                                                   Line("Executing queries:")>>,
                                ![p].rest = tool[p].args.queries.v]
                  /\ UNCHANGED result
       \/ /\ InHandler(p, "prolog_solve_problem", "loop")
          /\ IF tool[p].rest = <<>>
             THEN /\ Finish(p, ToolResult(tool[p].text, FALSE))
                  /\ UNCHANGED engineVars
             ELSE IF ~IsString(Head(tool[p].rest))
             THEN /\ tool' = [tool EXCEPT
                                ![p].text = Append(tool[p].text,
                                                   [Line("Invalid query type (must be string)")
                                                      EXCEPT !.i = tool[p].i + 1]),
                                ![p].rest = Tail(tool[p].rest),
                                ![p].i = tool[p].i + 1]
                  /\ UNCHANGED result
                  /\ UNCHANGED engineVars
             ELSE /\ Call(p, "Query", Head(tool[p].rest).v, "q_lock")
                  /\ tool' = [tool EXCEPT
                                ![p].at = "queried",
                                ![p].i = tool[p].i + 1,
                                ![p].ran = Append(tool[p].ran, Head(tool[p].rest).v)]
                  /\ UNCHANGED result
       \/ /\ InHandler(p, "prolog_solve_problem", "queried")
          /\ Return(p)
          /\ tool' = [tool EXCEPT
                        ![p].at = "loop",
                        ![p].text = Append(tool[p].text,
                                           IF res[p].err # "nil"
                                           THEN FailedLine("Query: Failed", tool[p].i,
                                                           Head(tool[p].rest).v, res[p])
                                           ELSE QueryLine("Query", tool[p].i,
                                                          Head(tool[p].rest).v, res[p])),
                        ![p].rest = restAfter(tool[p].rest, res[p])]
          /\ UNCHANGED result
    /\ UNCHANGED protoVars

\* handleExplainSolution: the query must be a string; facts that are not a
\* string count as the empty string; non-empty facts are loaded first.
handleExplainSolution(p) ==
    /\ \/ /\ InHandler(p, "prolog_explain_solution", "start")
          /\ UNCHANGED engineVars
          /\ IF ~IsString(tool[p].args.query)
             THEN Finish(p, BadArgument("Error: 'query' parameter must be a string"))
             ELSE IF IsString(tool[p].args.facts) /\ tool[p].args.facts.v # <<>>
             THEN Goto(p, "load", <<Line("Explaining Prolog Solution")>>)
             ELSE Goto(p, "query", <<Line("Explaining Prolog Solution")>>)
       \/ /\ InHandler(p, "prolog_explain_solution", "load")
          /\ Call(p, "LoadFacts", tool[p].args.facts.v, "l_lock")
          /\ Goto(p, "loaded", <<>>)
       \/ /\ InHandler(p, "prolog_explain_solution", "loaded")
          /\ Return(p)
          /\ Goto(p, "query", IF res[p].err # "nil"
                              THEN <<FailedLine("Warning: Failed to load provided facts", 0,
                                                <<>>, res[p])>>
                              ELSE <<Line("Loaded provided facts and rules")>>)
       \/ /\ InHandler(p, "prolog_explain_solution", "query")
          /\ Call(p, "Query", tool[p].args.query.v, "q_lock")
          /\ Goto(p, "queried", <<>>)
       \/ /\ InHandler(p, "prolog_explain_solution", "queried")
          /\ Return(p)
          /\ Finish(p, ToolResult(Append(tool[p].text,
                                         IF res[p].err # "nil"
                                         THEN FailedLine("Failed to execute query", 0,
                                                         tool[p].args.query.v, res[p])
                                         ELSE QueryLine("Query Execution", 0,
                                                        tool[p].args.query.v, res[p])),
                                  FALSE))
    /\ UNCHANGED protoVars

\* The handlers CallTool hands a registered name to.
Handlers(p) ==
    \/ handleQuery(p)
    \/ handleLoadFacts(p)
    \/ handleValidateSyntax(p)
    \/ handleClearKB(p)
    \/ handleSolveProblem(p)
    \/ handleExplainSolution(p)

\* The prolog_solve_problem handler that RegisterTools adds to the SDK
\* server.  Its input arrives typed (ProblemInput): two strings and a list
\* of strings.  It loads the facts and rules, then runs the queries.
SolveProblemInput(p, input) ==
    /\ tool[p].at = "none" /\ pc[p] = "idle" /\ result[p] = NoResult
    /\ tool' = [tool EXCEPT ![p] =
                  [NoTool EXCEPT !.name = "prolog_solve_problem", !.impl = "sdk",
                                 !.args = input, !.at = "load"]]
    /\ UNCHANGED result
    /\ UNCHANGED engineVars

InRegistered(p, at) ==
    tool[p].impl = "sdk" /\ tool[p].name = "prolog_solve_problem" /\ tool[p].at = at

registeredSolveProblem(p) ==
    /\ \/ /\ InRegistered(p, "load")
          /\ Call(p, "LoadFacts", tool[p].args.facts_and_rules.v, "l_lock")
          /\ Goto(p, "loaded", <<>>)
       \/ /\ InRegistered(p, "loaded")
          /\ Return(p)
          /\ IF res[p].err # "nil"
             THEN Finish(p, ToolResult(<<FailedLine("Failed to load facts and rules", 0, <<>>,
                                                    res[p])>>, TRUE))
             ELSE /\ tool' = [tool EXCEPT
                                ![p].at = "loop",
                                ![p].text = <<Line("Problem"),
                                              Line("Facts and rules loaded successfully."),
                                              Line("Query Results:")>>,
                                ![p].rest = tool[p].args.queries.v]
                  /\ UNCHANGED result
       \/ /\ InRegistered(p, "loop")
          /\ IF tool[p].rest = <<>>
             THEN /\ Finish(p, ToolResult(tool[p].text, FALSE))
                  /\ UNCHANGED engineVars
             ELSE /\ Call(p, "Query", Head(tool[p].rest).v, "q_lock")
                  /\ tool' = [tool EXCEPT
                                ![p].at = "queried",
                                ![p].i = tool[p].i + 1,
                                ![p].ran = Append(tool[p].ran, Head(tool[p].rest).v)]
                  /\ UNCHANGED result
       \/ /\ InRegistered(p, "queried")
          /\ Return(p)
          /\ tool' = [tool EXCEPT
                        ![p].at = "loop",
                        ![p].text = Append(tool[p].text,
                                           IF res[p].err # "nil"
                                           THEN FailedLine("Query: Error", tool[p].i,
                                                           Head(tool[p].rest).v, res[p])
                                           ELSE QueryLine("Query", tool[p].i,
                                                          Head(tool[p].rest).v, res[p])),
                        ![p].rest = Tail(tool[p].rest)]
          /\ UNCHANGED result
    /\ UNCHANGED protoVars

\* The caller of CallTool takes what it returned.
TakeResult(p) ==
    /\ result[p] # NoResult
    /\ request[p] = NoRequest
    /\ result' = [result EXCEPT ![p] = NoResult]
    /\ UNCHANGED <<engineVars, tool, protoVars>>

----------------------------------------------------------------------------
(* The protocol front-end (Server).  The goroutine that runs ServeSTDIO
   decodes one frame at a time from stdin, handles the request and encodes
   the response to stdout.  The write to stdout is taken to succeed. *)

Methods == {"initialize", "tools/list", "tools/call", "resources/list", "resources/read"}

\* A string that the code compares whole is kept as one piece.
Whole(v) == IF Len(v) = 1 THEN v[1] ELSE ""

\* encoder.Encode of a response that ignores the request's ID.
RespondWithoutID(p, response) ==
    /\ stdout' = Append(stdout, [response EXCEPT !.id = NilID])
    /\ request' = [request EXCEPT ![p] = NoRequest]
    /\ UNCHANGED <<decoder, nread, ctxDone, loop>>

\* encoder.Encode(response), and the handling of the request is over.
Respond(p, response) ==
    /\ stdout' = Append(stdout, response)
    /\ request' = [request EXCEPT ![p] = NoRequest]
    /\ UNCHANGED <<decoder, nread, ctxDone, loop>>

\* The select at the top of the loop of ServeSTDIO: a cancelled context makes
\* it return, otherwise the default case calls decoder.Decode.
Select(p) ==
    /\ loop = "select"
    /\ request[p] = NoRequest
    /\ loop' = IF ctxDone THEN "returned" ELSE "decode"
    /\ UNCHANGED <<engineVars, toolVars, request, stdout, decoder, nread, ctxDone>>

\* json.Decoder.Decode on a decoder that is usable: it blocks until a frame
\* arrives on stdin, whatever happens to the context meanwhile.  A frame that
\* is a JSON value but does not fit MCPRequest ("mistyped") fails to decode
\* and leaves the decoder usable, with the ID it could decode; a frame that
\* is not JSON ("syntax") fails to decode and the decoder keeps the error.
\* A failed decode is answered with a parse error and the loop continues; a
\* decoded request is handled and the loop continues.
DecodeFrame(p, frame) ==
    /\ loop = "decode"
    /\ decoder = "ok"
    /\ request[p] = NoRequest /\ tool[p].at = "none" /\ result[p] = NoResult /\ pc[p] = "idle"
    /\ nread' = nread + 1
    /\ loop' = "select"
    /\ IF frame.kind = "request"
       THEN /\ request' = [request EXCEPT ![p] = Request(nread + 1, frame.method, frame.params)]
            /\ UNCHANGED <<stdout, decoder>>
       ELSE IF frame.kind = "mistyped"
       THEN /\ stdout' = Append(stdout, ErrorResponse(nread + 1, ParseError, "Parse error"))
            /\ UNCHANGED <<request, decoder>>
       ELSE /\ stdout' = Append(stdout, ErrorResponse(NilID, ParseError, "Parse error"))
            /\ decoder' = "err"
            /\ UNCHANGED request
    /\ UNCHANGED <<engineVars, toolVars, ctxDone>>

\* json.Decoder.Decode on a decoder that keeps an error: it returns that
\* error again without reading, and the loop answers it and continues.
DecodeKeptError(p) ==
    /\ loop = "decode"
    /\ decoder = "err"
    /\ request[p] = NoRequest
    /\ stdout' = Append(stdout, ErrorResponse(NilID, ParseError, "Parse error"))
    /\ loop' = "select"
    /\ UNCHANGED <<engineVars, toolVars, request, decoder, nread, ctxDone>>

\* handleInitialize, handleToolsList, handleResourcesList
handleInitialize(p) ==
    /\ Respond(p, ResultResponse(request[p].id, "initialize", NoResult))
    /\ UNCHANGED <<engineVars, toolVars>>
handleToolsList(p) ==
    /\ Respond(p, ResultResponse(request[p].id, "tools", NoResult))
    /\ UNCHANGED <<engineVars, toolVars>>
handleResourcesList(p) ==
    /\ Respond(p, ResultResponse(request[p].id, "resources", NoResult))
    /\ UNCHANGED <<engineVars, toolVars>>

\* handleToolsCall: the checks of params and the call of CallTool; then,
\* when CallTool has returned, the response.
handleToolsCallAnyName(p) ==
    \/ /\ tool[p].at = "none" /\ result[p] = NoResult
       /\ IF request[p].params.kind # "object"
          THEN /\ Respond(p, ErrorResponse(request[p].id, InvalidParams, "Invalid params"))
               /\ UNCHANGED <<engineVars, toolVars>>
          ELSE /\ CallTool(p, Whole(request[p].params.name.v),
                           IF request[p].params.hasArguments
                           THEN request[p].params.arguments ELSE NoArgs)
               /\ UNCHANGED protoVars
    \/ /\ result[p] # NoResult
       /\ Respond(p, IF result[p].err # "nil"
                     THEN ErrorResponse(request[p].id, InternalError, "Tool execution error")
                     ELSE ResultResponse(request[p].id, "tool", result[p]))
       /\ result' = [result EXCEPT ![p] = NoResult]
       /\ UNCHANGED <<engineVars, tool>>

\* handleToolsCall that answers InvalidParams when 'arguments' is no object.
handleToolsCallNeedsArguments(p) ==
    \/ /\ tool[p].at = "none" /\ result[p] = NoResult
       /\ IF request[p].params.kind # "object"
          THEN /\ Respond(p, ErrorResponse(request[p].id, InvalidParams, "Invalid params"))
               /\ UNCHANGED <<engineVars, toolVars>>
          ELSE IF ~IsString(request[p].params.name) \/ ~request[p].params.hasArguments
          THEN /\ Respond(p, ErrorResponse(request[p].id, InvalidParams, "Invalid params"))
               /\ UNCHANGED <<engineVars, toolVars>>
          ELSE /\ CallTool(p, Whole(request[p].params.name.v), request[p].params.arguments)
               /\ UNCHANGED protoVars
    \/ /\ result[p] # NoResult
       /\ Respond(p, IF result[p].err # "nil"
                     THEN ErrorResponse(request[p].id, InternalError, "Tool execution error")
                     ELSE ResultResponse(request[p].id, "tool", result[p]))
       /\ result' = [result EXCEPT ![p] = NoResult]
       /\ UNCHANGED <<engineVars, tool>>

handleToolsCall(p) ==
    \/ /\ tool[p].at = "none" /\ result[p] = NoResult
       /\ IF request[p].params.kind # "object"
          THEN /\ Respond(p, ErrorResponse(request[p].id, InvalidParams, "Invalid params"))
               /\ UNCHANGED <<engineVars, toolVars>>
          ELSE IF ~IsString(request[p].params.name)
          THEN /\ Respond(p, ErrorResponse(request[p].id, InvalidParams, "Invalid params"))
               /\ UNCHANGED <<engineVars, toolVars>>
          ELSE /\ CallTool(p, Whole(request[p].params.name.v),
                           IF request[p].params.hasArguments
                           THEN request[p].params.arguments ELSE NoArgs)
               /\ UNCHANGED protoVars
    \/ /\ result[p] # NoResult
       /\ Respond(p, IF result[p].err # "nil"
                     THEN ErrorResponse(request[p].id, InternalError, "Tool execution error")
                     ELSE ResultResponse(request[p].id, "tool", result[p]))
       /\ result' = [result EXCEPT ![p] = NoResult]
       /\ UNCHANGED <<engineVars, tool>>

\* getResourceContent: the URI must end with the name of an example.
ResourceNames == {"basic", "logic-puzzles", "family-tree"}
getResourceContent(uri) == \E name \in ResourceNames : HasSuffix(uri, name)

\* handleResourcesRead
handleResourcesRead(p) ==
    /\ Respond(p, IF request[p].params.kind # "object"
                  THEN ErrorResponse(request[p].id, InvalidParams, "Invalid params")
                  ELSE IF ~IsString(request[p].params.uri)
                  THEN ErrorResponse(request[p].id, InvalidParams, "Invalid params")
                  ELSE IF ~getResourceContent(request[p].params.uri.v)
                  THEN ErrorResponse(request[p].id, InternalError, "Resource not found")
                  ELSE ResultResponse(request[p].id, "contents", NoResult))
    /\ UNCHANGED <<engineVars, toolVars>>

\* handleRequest: the switch on the method.
handleRequest(p) ==
    /\ request[p] # NoRequest
    /\ pc[p] = "idle"
    /\ \/ request[p].method = "initialize" /\ handleInitialize(p)
       \/ request[p].method = "tools/list" /\ handleToolsList(p)
       \/ request[p].method = "tools/call" /\ handleToolsCall(p)
       \/ request[p].method = "resources/list" /\ handleResourcesList(p)
       \/ request[p].method = "resources/read" /\ handleResourcesRead(p)
       \/ /\ request[p].method \notin Methods
          /\ Respond(p, ErrorResponse(request[p].id, MethodNotFound, "Method not found"))
          /\ UNCHANGED <<engineVars, toolVars>>

\* The context is cancelled, or its deadline expires.
Cancel ==
    /\ ~ctxDone
    /\ ctxDone' = TRUE
    /\ UNCHANGED <<engineVars, toolVars, request, stdout, decoder, nread, loop>>

\* The steps of Query, LoadFacts, ClearKnowledgeBase and Close.
Step(p, runs) ==
    \/ Lock(p)
    \/ QueryEnter(p)
    \/ QueryBuild(p)
    \/ QueryRun(p, runs)
    \/ LoadFactsEnter(p)
    \/ LoadFactsLoop(p)
    \/ ClearKnowledgeBase(p)
    \/ Close(p)
    \/ Return(p)

Calls(p, queryTexts, factTexts) ==
    \/ QueryCall(p, queryTexts)
    \/ LoadFactsCall(p, factTexts)
    \/ ClearKnowledgeBaseCall(p)
    \/ CloseCall(p)

\* Goroutines 1 .. NumProcs call Query, LoadFacts, ClearKnowledgeBase and
\* Close of one engine concurrently.
Next ==
    /\ \E p \in Procs :
          \/ Calls(p, QueryTexts, FactTexts)
          \/ Step(p, GateRuns)
    /\ UNCHANGED <<toolVars, protoVars>>
    /\ Elsewhere

Spec == Init /\ [][Next]_vars

\* One goroutine calls every method of the engine, with more inputs and
\* every outcome of the solver.
NextSeq ==
    /\ \/ Calls(1, SeqQueryTexts, SeqFactTexts)
       \/ GetLoadedFactsCall(1)
       \/ ValidateQueryCall(1, SeqValidateTexts)
       \/ Step(1, SolverRuns)
       \/ GetLoadedFacts(1)
       \/ ValidateQueryRun(1)
    /\ UNCHANGED <<toolVars, protoVars>>
    /\ Elsewhere

SpecSeq == Init /\ [][NextSeq]_vars

\* How many times a tool call can call Query, and how many statements it can
\* leave stored (used only to bound the model).
StringsIn(items) == Cardinality({k \in 1 .. Len(items) : IsString(items[k])})
QueryCount(name, args) ==
    IF name \in {"prolog_query", "prolog_explain_solution"}
    THEN (IF IsString(args.query) THEN 1 ELSE 0)
    ELSE IF name = "prolog_solve_problem" /\ args.queries.kind = "array"
    THEN StringsIn(args.queries.v)
    ELSE 0
LoadCount(name, impl, args) ==
    IF name \in {"prolog_load_facts", "prolog_explain_solution"}
    THEN Len(facts) + KeptCount(args.facts.v)
    ELSE IF name = "prolog_solve_problem"
    THEN (IF impl = "sdk" THEN Len(facts) ELSE 0) + KeptCount(args.facts_and_rules.v)
    ELSE 0
Fits(name, impl, args) ==
    /\ now + QueryCount(name, args) <= MaxQueries
    /\ LoadCount(name, impl, args) <= MaxFacts

\* The steps of the engine that a tool handler's calls take.
EngineStep(p, runs) ==
    /\ \/ Lock(p)
       \/ QueryEnter(p)
       \/ QueryBuild(p)
       \/ QueryRun(p, runs)
       \/ LoadFactsEnter(p)
       \/ LoadFactsLoop(p)
       \/ ClearKnowledgeBase(p)
       \/ ValidateQueryRun(p)
    /\ UNCHANGED <<toolVars, protoVars>>

\* Goroutine 1 calls the tools one after the other, through CallTool and
\* through the registered solve-problem handler; the owner of the engine, on
\* goroutine 2, may close it at any time.
NextTools ==
    \/ /\ tool[1].at = "none" /\ result[1] = NoResult
       /\ \E c \in ToolCalls :
             /\ Fits(c.name, "map", c.args)
             /\ CallTool(1, c.name, c.args)
       /\ UNCHANGED protoVars
       /\ Elsewhere
    \/ /\ tool[1].at = "none" /\ result[1] = NoResult
       /\ \E input \in ProblemInputs :
             /\ Fits("prolog_solve_problem", "sdk", input)
             /\ SolveProblemInput(1, input)
       /\ UNCHANGED protoVars
       /\ Elsewhere
    \/ Handlers(1) /\ Elsewhere
    \/ registeredSolveProblem(1) /\ Elsewhere
    \/ TakeResult(1) /\ Elsewhere
    \/ EngineStep(1, ToolRuns) /\ Elsewhere
    \/ /\ CloseCall(2) \/ Lock(2) \/ Close(2)
       /\ UNCHANGED <<toolVars, protoVars>>
       /\ Elsewhere

SpecTools == Init /\ [][NextTools]_vars

\* The engine calls a frame leads to stay within the bounds of the model.
FrameFits(frame) ==
    (frame.kind = "request" /\ frame.method = "tools/call" /\ frame.params.kind = "object")
        => Fits(Whole(frame.params.name.v), "map", frame.params.arguments)

\* Goroutine 1 runs ServeSTDIO on one engine: it decodes the frames that
\* arrive on stdin, handles each request and writes each response.
NextProto ==
    \/ /\ nread < MaxFrames
       /\ \E frame \in Frames : FrameFits(frame) /\ DecodeFrame(1, frame)
       /\ Elsewhere
    \/ /\ Len(stdout) < MaxStdout
       /\ DecodeKeptError(1)
       /\ Elsewhere
    \/ Select(1) /\ Elsewhere
    \/ handleRequest(1) /\ Elsewhere
    \/ Handlers(1) /\ Elsewhere
    \/ EngineStep(1, ToolRuns) /\ Elsewhere
    \/ Cancel /\ Elsewhere

SpecProto == Init /\ [][NextProto]_vars

\* Server.handleHTTPRequest, up to the call of handleRequest: every POST
\* has a decoder of its own on its body; a body that does not decode is
\* answered with a parse error that carries a nil ID.  The goroutines of
\* the HTTP server run it side by side on the one Server.
handleHTTPRequest(p, frame) ==
    /\ request[p] = NoRequest /\ tool[p].at = "none" /\ result[p] = NoResult /\ pc[p] = "idle"
    /\ nread' = nread + 1
    /\ IF frame.kind = "request"
       THEN /\ request' = [request EXCEPT ![p] = Request(nread + 1, frame.method, frame.params)]
            /\ UNCHANGED stdout
       ELSE /\ stdout' = Append(stdout, ErrorResponse(NilID, ParseError, "Parse error"))
            /\ UNCHANGED request
    /\ UNCHANGED <<engineVars, toolVars, decoder, ctxDone, loop>>

\* The bodies posted to /mcp.
Posts ==
    { ToolFrame("prolog_load_facts", TRUE, With(NoArgs, "facts", Str(RulesA))),
      ToolFrame("prolog_query", TRUE, With(NoArgs, "query", Str(QA))),
      Frame("request", "tools/list", NoParams),
      Frame("syntax", "", NoParams) }

\* Server.ServeHTTP: the calls that come in are handled by the goroutines
\* of the HTTP server, all on the Server made by NewServer with its one
\* engine.
NextHTTP ==
    \/ /\ nread < MaxFrames
       /\ \E p \in Procs : \E frame \in Posts : FrameFits(frame) /\ handleHTTPRequest(p, frame)
       /\ Elsewhere
    \/ (\E p \in Procs : handleRequest(p)) /\ Elsewhere
    \/ (\E p \in Procs : Handlers(p)) /\ Elsewhere
    \/ (\E p \in Procs : EngineStep(p, ToolRuns)) /\ Elsewhere

SpecHTTP == Init /\ [][NextHTTP]_vars

\* LoadFacts(text) for every text up to MaxTextLen, on an open engine that
\* holds one of PriorFacts: the state a call of LoadFacts starts in.
InitLoad ==
    /\ closed = FALSE
    /\ facts \in PriorFacts
    /\ tempFiles = <<>>
    /\ mutex = NoHolder
    /\ now = 0
    /\ pc = [p \in Procs |-> IF p = 1 THEN "l_lock" ELSE "idle"]
    /\ op = [p \in Procs |-> IF p = 1 THEN "LoadFacts" ELSE "none"]
    /\ arg \in {[p \in Procs |-> IF p = 1 THEN t ELSE Nil] : t \in AllFactTexts}
    /\ res = [p \in Procs |-> Nil]
    /\ lines = [p \in Procs |-> <<>>]
    /\ prog = [p \in Procs |-> Nil]
    /\ entryFacts = [p \in Procs |-> Nil]
    /\ InitServer
    /\ waiting = <<>>
    /\ InitSessions

NextLoad ==
    /\ Lock(1) \/ LoadFactsEnter(1) \/ LoadFactsLoop(1) \/ Return(1)
    /\ UNCHANGED <<toolVars, protoVars>>
    /\ Elsewhere

SpecLoad == InitLoad /\ [][NextLoad]_vars

\* ValidateQuery(text) for every text up to MaxTextLen and the documented
\* examples: the state a call of ValidateQuery starts in.
InitValidate ==
    /\ closed = FALSE
    /\ facts = <<>>
    /\ tempFiles = <<>>
    /\ mutex = NoHolder
    /\ now = 0
    /\ pc = [p \in Procs |-> IF p = 1 THEN "v_in" ELSE "idle"]
    /\ op = [p \in Procs |-> IF p = 1 THEN "ValidateQuery" ELSE "none"]
    /\ arg \in {[p \in Procs |-> IF p = 1 THEN t ELSE Nil] : t \in AllValidateTexts}
    /\ res = [p \in Procs |-> Nil]
    /\ lines = [p \in Procs |-> <<>>]
    /\ prog = [p \in Procs |-> Nil]
    /\ entryFacts = [p \in Procs |-> Nil]
    /\ InitServer
    /\ waiting = <<>>
    /\ InitSessions

NextValidate ==
    /\ ValidateQueryRun(1) \/ Return(1)
    /\ UNCHANGED <<toolVars, protoVars>>
    /\ Elsewhere

SpecValidate == InitValidate /\ [][NextValidate]_vars

----------------------------------------------------------------------------
(* Properties. *)

\* The statements of a method that run between e.mutex.Lock() and the
\* deferred e.mutex.Unlock().
GatePc == {"q_in", "q_build", "q_run", "l_in", "l_loop", "c_in", "x_in", "g_in"}
InGate == {p \in Procs : pc[p] \in GatePc}

\* Goroutine p takes a step of the method it is in.
Moves(p) == pc'[p] # pc[p] \/ lines'[p] # lines[p]

\* C1: once the engine is closed, a Query, LoadFacts or ClearKnowledgeBase
\* that reaches its closed check returns the "engine is closed" error and
\* changes neither the knowledge base nor the temp-file list nor the clock,
\* and in no state of a closed engine is a program being built, a solver
\* running or a load loop under way.
C1_ClosedEngineRejects ==
    [][ /\ \A p \in Procs :
              (closed /\ pc[p] \in {"q_in", "l_in", "c_in"} /\ Moves(p))
                  => /\ pc'[p] = "done"
                     /\ res'[p] = ErrClosed
                     /\ facts' = facts
                     /\ tempFiles' = tempFiles
                     /\ now' = now
        /\ closed' => \A q \in Procs : pc'[q] \notin {"q_build", "q_run", "l_loop"}
      ]_vars

\* C1 witness: on a closed engine that holds statements, a Query and a
\* ClearKnowledgeBase have both returned the closed error.
C1_Witness ==
    /\ closed
    /\ facts # <<>>
    /\ \E p, q \in Procs :
          /\ pc[p] = "done" /\ op[p] = "Query" /\ res[p] = ErrClosed
          /\ pc[q] = "done" /\ op[q] = "ClearKnowledgeBase" /\ res[q] = ErrClosed

\* C2: a Close that finds the engine closed returns nil and changes nothing
\* of the engine; every Close returns nil and leaves the engine closed; no
\* step of any method resets the closed flag.
C2_CloseIdempotentTerminal ==
    [][ /\ closed => closed'
        /\ \A p \in Procs :
              (pc[p] = "x_in" /\ Moves(p))
                  => /\ pc'[p] = "done"
                     /\ res'[p] = NoErr
                     /\ closed'
                     /\ facts' = facts
                     /\ closed => (tempFiles' = tempFiles /\ now' = now)
      ]_vars

\* C2 witness: two Close calls have returned nil on an engine that holds
\* statements; the mutex ordered them, so one of them found the engine
\* closed.
C2_Witness ==
    /\ closed
    /\ facts # <<>>
    /\ \A p \in {1, 2} : pc[p] = "done" /\ op[p] = "Close" /\ res[p] = NoErr

\* C3: at most one goroutine is between Lock and Unlock, it is the holder of
\* the mutex, and so at most one solver process runs.
C3_OneInGate ==
    /\ Cardinality(InGate) <= 1
    /\ \A p \in InGate : mutex = p
    /\ Cardinality({p \in Procs : pc[p] = "q_run"}) <= 1

\* C3 witness: a solver runs for one Query while another Query and nothing
\* else waits for the mutex.
C3_Witness ==
    \E p, q \in Procs :
        /\ pc[p] = "q_run"
        /\ pc[q] = "q_lock"
        /\ TrimSpace(arg[q]) # <<>>

\* Statements a list of lines still appends.
KeptIn(ls) == Cardinality({i \in 1 .. Len(ls) : keepLine(TrimSpace(ls[i]))})

\* LoadFacts of goroutine l has appended some but not all of its statements.
MidLoad(l) ==
    /\ pc[l] = "l_loop"
    /\ KeptIn(lines[l]) > 0
    /\ KeptIn(lines[l]) < KeptCount(arg[l])

\* C4: when a Query writes its program, the program holds the facts as they
\* are, and no LoadFacts is part-way through appending its statements.
C4_NoPartialSplice ==
    [][ \A q \in Procs :
            (pc[q] = "q_build" /\ pc'[q] = "q_run")
                => /\ prog'[q].kb = facts
                   /\ \A l \in Procs : ~MidLoad(l)
      ]_vars

\* C4 witness: a Query runs on the two statements of a completed load while
\* another LoadFacts call waits for the mutex.
C4_Witness ==
    \E q, l \in Procs :
        /\ pc[q] = "q_run"
        /\ Len(prog[q].kb) = 2
        /\ pc[l] = "l_lock"


\* The lines of a text: the k-th line lies between the (k-1)-th and the k-th
\* newline of the text.
NewlinesOf(text) == {i \in 1 .. Len(text) : text[i] = NL}
LineOf(text, k) ==
    LET before == {i \in NewlinesOf(text) :
                      Cardinality({j \in NewlinesOf(text) : j <= i}) = k - 1}
        after  == {i \in NewlinesOf(text) :
                      Cardinality({j \in NewlinesOf(text) : j <= i}) = k}
        from   == IF before = {} THEN 1 ELSE MinOf(before) + 1
        to     == IF after = {} THEN Len(text) ELSE MinOf(after) - 1
    IN  SubSeq(text, from, to)
LinesOf(text) == [k \in 1 .. Cardinality(NewlinesOf(text)) + 1 |-> LineOf(text, k)]

\* What LoadFacts(text) is to append: the trimmed lines that are neither
\* blank nor comments, in order, each with a period put after it unless it
\* ends with one.
IsStatement(line) == Len(line) > 0 /\ line[1] # Pct
WithPeriod(line) == IF line[Len(line)] = Dot THEN line ELSE line \o <<Dot>>
ExpectedStatements(text) ==
    LET trimmed == [k \in 1 .. Len(LinesOf(text)) |-> TrimSpace(LinesOf(text)[k])]
        kept    == SelectSeq(trimmed, IsStatement)
    IN  [k \in 1 .. Len(kept) |-> WithPeriod(kept[k])]

\* C5: when LoadFacts(F) returns on an open engine it returns nil and the
\* facts are the facts its loop started from followed by the expected
\* statements of F, whatever F is.
C5_LoadFactsAppendsNormalized ==
    [][ \A p \in Procs :
            (pc[p] = "l_loop" /\ pc'[p] = "done")
                => /\ res'[p] = NoErr
                   /\ facts' = entryFacts[p] \o ExpectedStatements(arg[p])
      ]_vars

\* C5 witness: onto two equal stored statements, a text of a statement
\* without period and the same statement with its period has been loaded:
\* both are stored after them, the first with a period added, none dropped
\* as a duplicate.
C5_Witness ==
    /\ pc[1] = "done" /\ op[1] = "LoadFacts" /\ res[1] = NoErr
    /\ arg[1] = <<"a", NL, "a", Dot>>
    /\ facts = << <<"a", Dot>>, <<"a", Dot>>, <<"a", Dot>>, <<"a", Dot>> >>

C7_OnlyLoadAndClearWrite ==
    [][ facts' # facts
            => \E p \in Procs :
                  \/ pc[p] = "l_loop" /\ lines'[p] # lines[p]
                  \/ pc[p] = "c_in" /\ pc'[p] = "done"
      ]_vars

\* C7 witness: a Query whose solver run failed has returned, and the
\* statements are still stored.
C7_Witness ==
    /\ pc[1] = "done" /\ op[1] = "Query"
    /\ res[1] = QueryOutcome(FALSE, <<>>, "execution failed")
    /\ facts = << <<"a", Dot>>, <<"a", Dot>> >>

\* The nesting depth of open/close after the first i characters of s.
DepthAt(s, open, close, i) ==
    Cardinality({j \in 1 .. i : s[j] = open}) - Cardinality({j \in 1 .. i : s[j] = close})
Balanced(s, open, close) ==
    /\ \A i \in 1 .. Len(s) : DepthAt(s, open, close, i) >= 0
    /\ DepthAt(s, open, close, Len(s)) = 0

\* The rule of the validator that a text fails first, or "nil".
FirstFailure(text) ==
    LET t == TrimSpace(text)
    IN  IF \A i \in 1 .. Len(text) : IsSpace(text[i]) THEN "empty query"
        ELSE IF t[Len(t)] # Dot THEN "query must end with a period"
        ELSE IF ~Balanced(t, "(", ")") THEN "unbalanced parentheses"
        ELSE IF ~Balanced(t, "[", "]") THEN "unbalanced brackets"
        ELSE "nil"

\* C8: ValidateQuery returns the error of the first rule the text fails, in
\* the order empty, period, parentheses, brackets, and nil when it fails
\* none; the four documented examples get the documented verdicts.
C8_ValidateFirstFailure ==
    \A p \in Procs :
        (pc[p] = "done" /\ op[p] = "ValidateQuery")
            => /\ res[p].err = FirstFailure(arg[p])
               /\ arg[p] = MemberQuery => res[p] = NoErr
               /\ arg[p] = MemberQueryNoPeriod => res[p] = ErrNoPeriod
               /\ arg[p] = <<>> => res[p] = ErrEmptyQuery
               /\ arg[p] = FooOpenParen => res[p].err = "unbalanced parentheses"

\* C8 witness: a terminated text whose parentheses and brackets are both
\* unbalanced has been reported for its parentheses.
C8_Witness ==
    /\ pc[1] = "done" /\ op[1] = "ValidateQuery"
    /\ arg[1] = <<"]", "(", Dot>>
    /\ res[1] = ErrParens("unmatched opening")

\* C9 (as claimed): a ValidateQuery that runs on a closed engine returns the
\* closed error.
C9_ValidateRequiresOpen ==
    [][ \A p \in Procs :
            (closed /\ pc[p] = "v_in" /\ pc'[p] = "done") => res'[p] = ErrClosed
      ]_vars

\* C10 (as claimed): a GetLoadedFacts that runs on a closed engine returns
\* the closed error and not the stored statements.
C10_SnapshotRequiresOpen ==
    [][ \A p \in Procs :
            (closed /\ pc[p] = "g_in" /\ pc'[p] = "done") => res'[p] = ErrClosed
      ]_vars

\* Goroutine p returns from the Query it is in.
QueryReturns(p) == op[p] = "Query" /\ pc[p] \in {"q_in", "q_build", "q_run"} /\ pc'[p] = "done"

\* C11: a Query returns an error value exactly when it finds the engine
\* closed; on an open engine it returns a QueryResult with a nil error, and
\* that result has Success false for the empty text, for the program that
\* could not be written, for the solver process that failed and for the
\* output without the success marker.
C11_HardErrorIffClosed ==
    [][ \A p \in Procs :
            QueryReturns(p)
                => /\ (res'[p].err # "nil") <=> closed
                   /\ closed => res'[p] = ErrClosed
                   /\ ~closed =>
                        /\ DOMAIN res'[p] = {"err", "Success", "Output", "Error"}
                        /\ (pc[p] = "q_in") => (TrimSpace(arg[p]) = <<>> /\ ~res'[p].Success)
                        /\ (pc[p] = "q_build") => (~res'[p].Success /\ res'[p].Error # "")
                        /\ (pc[p] = "q_run" /\ prog'[p].run.failed) => ~res'[p].Success
                        /\ (pc[p] = "q_run" /\ \A i \in DOMAIN prog'[p].run.output :
                                                   prog'[p].run.output[i] # MarkerTrue)
                              => ~res'[p].Success
      ]_vars

\* C11 witness: on an open engine a Query whose program could not be written
\* has returned a failed QueryResult and no error.
C11_Witness ==
    /\ ~closed
    /\ pc[1] = "done" /\ op[1] = "Query"
    /\ res[1] = QueryOutcome(FALSE, <<>>, "failed to write query file")
    /\ facts # <<>>

\* C12: when the solver process has ended, the outcome keeps the output of
\* the process as it is; a failed process gives Success false and an Error
\* that is not empty; a completed process gives an empty Error and Success
\* true exactly when the success marker occurs in the output.
C12_OutcomeClassification ==
    [][ \A p \in Procs :
            (pc[p] = "q_run" /\ pc'[p] = "done")
                => LET r == prog'[p].run
                   IN  /\ res'[p].err = "nil"
                       /\ res'[p].Output = r.output
                       /\ r.failed => (~res'[p].Success /\ res'[p].Error # "")
                       /\ ~r.failed =>
                            /\ res'[p].Error = ""
                            /\ res'[p].Success <=>
                                 (\E i \in DOMAIN r.output : r.output[i] = MarkerTrue)
      ]_vars

\* C12 witness: a solver that completed and printed the failure marker, on
\* stored statements: Success false, no error detail, the output kept.
C12_Witness ==
    /\ pc[1] = "done" /\ op[1] = "Query"
    /\ res[1] = QueryOutcome(FALSE, <<MarkerFalse>>, "")
    /\ prog[1].kb # <<>>

\* C13 (as claimed): when the solver process completed and its output holds
\* neither marker, the outcome has Success false and an Error that is not
\* empty.
C13_NoMarkerHasDetail ==
    [][ \A p \in Procs :
            (/\ pc[p] = "q_run" /\ pc'[p] = "done"
             /\ ~prog'[p].run.failed
             /\ \A i \in DOMAIN prog'[p].run.output :
                    prog'[p].run.output[i] \notin {MarkerTrue, MarkerFalse})
                => (~res'[p].Success /\ res'[p].Error # "")
      ]_vars

\* The request goroutine p is handling calls a tool that is not registered.
UnknownToolRequest(p) ==
    /\ request[p].method = "tools/call"
    /\ request[p].params.kind = "object"
    /\ request[p].params.name.kind = "string"
    /\ \A name \in ToolNames : request[p].params.name.v # <<name>>

\* C14: while a tools/call request for an unregistered name is handled, no
\* step changes the engine and no handler is entered; what CallTool returns
\* is an error and no ToolResult; and the one response written has the
\* request's id, the code -32603 and no result.
C14_UnknownToolIsDispatchError ==
    [][ \A p \in Procs :
            UnknownToolRequest(p)
                => /\ engineVars' = engineVars
                   /\ tool'[p] = NoTool
                   /\ ~result'[p].set
                   /\ (result'[p] # result[p] /\ result[p] = NoResult)
                         => (result'[p].err \notin {"nil", "none"} /\ stdout' = stdout)
                   /\ stdout' # stdout
                         => /\ Len(stdout') = Len(stdout) + 1
                            /\ stdout'[Len(stdout')].id = request[p].id
                            /\ stdout'[Len(stdout')].error.code = 0 - 32603
                            /\ stdout'[Len(stdout')].result = NilResult
                            /\ request'[p] = NoRequest
      ]_vars

\* C14 witness: after a request that loaded a statement, the second request
\* named an unregistered tool and got the tool execution error.
C14_Witness ==
    /\ facts # <<>>
    /\ Len(stdout) = 2
    /\ stdout[2].id = 2
    /\ stdout[2].error = [code |-> 0 - 32603, message |-> "Tool execution error"]
    /\ stdout[2].result = NilResult

\* The declared shape of each tool's arguments (GetToolDefinitions): the
\* kind of every declared field and the fields that are required.
DeclaredFields(name) ==
    CASE name = "prolog_query" -> {"query"}
      [] name = "prolog_load_facts" -> {"facts"}
      [] name = "prolog_validate_syntax" -> {"code"}
      [] name = "prolog_clear_kb" -> {}
      [] name = "prolog_solve_problem" -> {"problem_description", "facts_and_rules", "queries"}
      [] name = "prolog_explain_solution" -> {"query", "facts"}
DeclaredKind(field) == IF field = "queries" THEN "array" ELSE "string"
RequiredFields(name) ==
    IF name = "prolog_explain_solution" THEN {"query"} ELSE DeclaredFields(name)
ViolatesShape(name, args) ==
    \E field \in DeclaredFields(name) :
        \/ field \in RequiredFields(name) /\ args[field].kind = "absent"
        \/ args[field].kind \notin {"absent", DeclaredKind(field)}

\* The handler goroutine p is in returns.
HandlerReturns(p) == tool[p].at # "none" /\ tool'[p].at = "none"

\* C15 (as claimed): when a handler reached through CallTool returns for an
\* argument map that violates the declared shape of its tool, it returns a
\* ToolResult (no error) that is error-flagged and has a text.
C15_ShapeViolationIsToolError ==
    [][ \A p \in Procs :
            (/\ HandlerReturns(p)
             /\ tool[p].impl = "map"
             /\ ViolatesShape(tool[p].name, tool[p].args))
                => /\ result'[p].err = "nil"
                   /\ result'[p].isError
                   /\ result'[p].text # <<>>
      ]_vars

\* C16 (as claimed): every program a solve-problem handler has the solver
\* run holds exactly the expected statements of the supplied facts_and_rules,
\* and when the handler returns a result that is not error-flagged the facts
\* are exactly those statements, whatever was stored before the call.
C16_SolveSeesOnlySuppliedRules ==
    [][ \A p \in Procs :
            tool[p].name = "prolog_solve_problem"
                => /\ (pc[p] = "q_build" /\ pc'[p] = "q_run")
                         => prog'[p].kb = ExpectedStatements(tool[p].args.facts_and_rules.v)
                   /\ (HandlerReturns(p) /\ ~result'[p].isError)
                         => facts' = ExpectedStatements(tool[p].args.facts_and_rules.v)
      ]_vars

\* The lines of a text that report on an element of the list of queries.
IsReport(line) == line.i > 0
\* The texts of the elements of a list that are strings, in order.
StringsOf(items) ==
    LET strs == SelectSeq(items, IsString) IN [k \in 1 .. Len(strs) |-> strs[k].v]

\* C17: when a solve-problem handler that started its loop returns, it
\* returns one result that is not error-flagged; Query has been called once
\* for each string of the list, in the order of the list and with its text;
\* and the text reports each element of the list once, in order, whatever
\* the outcome of the others: a string with its text and the outcome of its
\* Query (a QueryResult or the engine's error), an element that is not a
\* string as invalid.
C17_EveryQueryRunsAndReports ==
    [][ \A p \in Procs :
            (HandlerReturns(p) /\ tool[p].name = "prolog_solve_problem" /\ tool[p].at = "loop")
                => LET list == tool[p].args.queries.v
                       reports == SelectSeq(result'[p].text, IsReport)
                   IN  /\ result'[p].err = "nil" /\ ~result'[p].isError
                       /\ tool[p].ran = StringsOf(list)
                       /\ Len(reports) = Len(list)
                       /\ \A k \in 1 .. Len(list) :
                             /\ reports[k].i = k
                             /\ IF list[k].kind = "string"
                                THEN reports[k].query = list[k].v
                                ELSE reports[k].msg = "Invalid query type (must be string)"
      ]_vars

\* C17 witness: of three queries the second failed with an error detail and
\* the first and the third succeeded, each reported in the one result.
C17_Witness ==
    /\ result[1].set /\ ~result[1].isError
    /\ LET reports == SelectSeq(result[1].text, IsReport)
       IN  /\ Len(reports) = 3
           /\ reports[1].success /\ reports[1].query = QA
           /\ ~reports[2].success /\ reports[2].error # "" /\ reports[2].query = QB
           /\ reports[3].success /\ reports[3].query = QA

\* A response has exactly one of Result and Error.
OneOfResultAndError(response) ==
    (response.result.kind = "nil") # (response.error = NilError)

\* The responses on stdout that carry the id.
ResponsesTo(id) == {k \in DOMAIN stdout : stdout[k].id = id}

\* C18: a decoded request is answered exactly once: nothing is written while
\* it is handled, the step that ends its handling writes one response that
\* carries its id and has exactly one of result and error, no later step
\* writes a response with the id of an earlier request, and while a request
\* is being handled the goroutine always has a next step of the handling.
C18_OneResponsePerRequest ==
    /\ [][ \A p \in Procs :
            /\ (request[p] = NoRequest /\ request'[p] # NoRequest)
                  => (stdout' = stdout /\ ResponsesTo(request'[p].id) = {})
            /\ (request[p] # NoRequest /\ request'[p] # NoRequest)
                  => (stdout' = stdout /\ request'[p] = request[p])
            /\ (request[p] # NoRequest /\ request'[p] = NoRequest)
                  => /\ Len(stdout') = Len(stdout) + 1
                     /\ SubSeq(stdout', 1, Len(stdout)) = stdout
                     /\ stdout'[Len(stdout')].id = request[p].id
                     /\ OneOfResultAndError(stdout'[Len(stdout')])
            /\ (p = 1 /\ request[p] = NoRequest /\ request'[p] = NoRequest /\ stdout' # stdout)
                  => stdout'[Len(stdout')].id \notin 1 .. nread
       ]_vars
    /\ [](\A id \in 1 .. MaxFrames + 1 :
            /\ Cardinality(ResponsesTo(id)) <= 1
            /\ request[1].id = id
                  => /\ ResponsesTo(id) = {}
                     /\ ENABLED (handleRequest(1) \/ Handlers(1) \/ EngineStep(1, ToolRuns)))

\* C18 witness: two requests were handled; the first, a tool call that ran a
\* query, got a result and no error, the second got an error and no result.
C18_Witness ==
    /\ request[1] = NoRequest
    /\ Len(stdout) = 2
    /\ stdout[1].id = 1 /\ stdout[1].result.kind = "tool" /\ stdout[1].error = NilError
    /\ stdout[1].result.tool.text # <<>>
    /\ stdout[2].id = 2 /\ stdout[2].result = NilResult /\ stdout[2].error # NilError

\* The parse-error responses on stdout.
ParseErrors == {k \in DOMAIN stdout : stdout[k].error.code = 0 - 32700}

\* C19: every frame that failed to decode is answered with one parse error,
\* so stdout never holds more parse errors than frames were read; and while
\* the loop is in decoder.Decode, the next frame on stdin can be decoded.
C19_BadFrameDoesNotWedge ==
    /\ Cardinality(ParseErrors) <= nread
    /\ (loop = "decode" /\ nread < MaxFrames)
          => ENABLED DecodeFrame(1, Frame("request", "tools/list", NoParams))

\* The request has a method the server does not know.
UnknownMethod(r) ==
    r.method \notin {"initialize", "tools/list", "tools/call", "resources/list",
                     "resources/read"}

\* The request is a tools/call or resources/read whose params is not an
\* object or has no string under "name", respectively "uri".
MalformedParams(r) ==
    \/ /\ r.method = "tools/call"
       /\ (r.params.kind # "object" \/ r.params.name.kind # "string")
    \/ /\ r.method = "resources/read"
       /\ (r.params.kind # "object" \/ r.params.uri.kind # "string")

\* C20: while a request with an unknown method, or a tools/call or
\* resources/read request with malformed params, is handled, no step
\* changes the engine or enters a tool, and the step that ends the handling
\* writes the error -32601, respectively -32602, with the request's id and
\* no result.
C20_MethodAndParamsErrors ==
    [][ \A p \in Procs :
            (request[p] # NoRequest /\ (UnknownMethod(request[p]) \/ MalformedParams(request[p])))
                => /\ engineVars' = engineVars
                   /\ toolVars' = toolVars
                   /\ (stdout' # stdout \/ request'[p] # request[p])
                         => /\ request'[p] = NoRequest
                            /\ Len(stdout') = Len(stdout) + 1
                            /\ stdout'[Len(stdout')].id = request[p].id
                            /\ stdout'[Len(stdout')].result = NilResult
                            /\ stdout'[Len(stdout')].error.code =
                                  IF UnknownMethod(request[p]) THEN 0 - 32601 ELSE 0 - 32602
      ]_vars

\* C20 witness: after a request that loaded a statement, a request with
\* malformed params got the error -32602, and the statement is still loaded.
C20_Witness ==
    /\ facts # <<>>
    /\ request[1] = NoRequest
    /\ Len(stdout) = 2
    /\ stdout[2].id = 2
    /\ stdout[2].error.code = 0 - 32602
    /\ stdout[2].result = NilResult

----------------------------------------------------------------------------
(* Close and the gate. *)

\* C25: a goroutine that has called Close or ValidateQuery never waits for
\* the mutex: whatever the other goroutines are doing, its next step can be
\* taken.
C25_CloseAndValidateNeverWait ==
    \A p \in Procs :
        /\ pc[p] = "x_lock" => ENABLED Lock(p)
        /\ pc[p] = "v_in" => ENABLED ValidateQueryRun(p)

\* The statements of Query and LoadFacts after the closed check.
PastClosedCheck == {"q_build", "q_run", "l_loop"}

\* C26: the closed flag is set only by the goroutine that holds the mutex in
\* Close, while no other goroutine is between Lock and Unlock; an operation
\* that passed its closed check never has the engine closed under it, is
\* never blocked, and returns a value that is not the closed error; and a
\* Query, LoadFacts or ClearKnowledgeBase whose closed check finds the engine
\* closed returns the closed error and changes nothing.
C26_CloseRaceFree ==
    /\ [][ /\ closed' # closed
                => \E x \in Procs : pc[x] = "x_in" /\ mutex = x /\ InGate = {x}
           /\ \A p \in Procs :
                 /\ (pc[p] \in PastClosedCheck /\ pc'[p] = "done")
                       => (~closed /\ res'[p].err # "engine is closed")
                 /\ (pc[p] \in {"q_in", "l_in", "c_in"} /\ Moves(p))
                       => IF closed
                          THEN /\ pc'[p] = "done"
                               /\ res'[p].err = "engine is closed"
                               /\ facts' = facts /\ tempFiles' = tempFiles
                          ELSE ~closed'
         ]_vars
    /\ [](\A p \in Procs :
             pc[p] \in PastClosedCheck
                 => /\ ~closed
                    /\ ENABLED (QueryBuild(p) \/ QueryRun(p, GateRuns) \/ LoadFactsLoop(p)))

\* C26 witness: Close has been called and waits for the mutex while the
\* solver of a Query runs on an open engine that holds statements.
C26_Witness ==
    \E p, x \in Procs :
        /\ pc[p] = "q_run" /\ prog[p].kb # <<>>
        /\ pc[x] = "x_lock"
        /\ ~closed

----------------------------------------------------------------------------
(* The knowledge-base invariant. *)

\* strings.Join(statements, "\n")
RECURSIVE Join(_)
Join(ss) ==
    IF ss = <<>> THEN <<>>
    ELSE IF Len(ss) = 1 THEN ss[1]
    ELSE ss[1] \o <<NL>> \o Join(Tail(ss))

\* LoadFacts is called with the lines of the snapshot.
Reload(p) ==
    /\ Len(facts) + Len(facts) <= MaxFacts
    /\ Call(p, "LoadFacts", Join(facts), "l_lock")

\* LoadFacts(text) as in SpecLoad; after it has returned, the snapshot may be
\* loaded again.
NextReload ==
    /\ Lock(1) \/ LoadFactsEnter(1) \/ LoadFactsLoop(1) \/ Return(1) \/ Reload(1)
    /\ UNCHANGED <<toolVars, protoVars>>
    /\ Elsewhere

SpecReload == InitLoad /\ [][NextReload]_vars

\* A stored statement in normal form.
NormalForm(statement) ==
    /\ statement # <<>>
    /\ statement[1] \notin {" ", NL, "\t", Pct}
    /\ statement[Len(statement)] = Dot
    /\ \A i \in 1 .. Len(statement) : statement[i] # NL

\* C30: in every state every stored statement is non-empty, has no leading
\* or trailing whitespace, does not start with '%' and ends with '.'; and a
\* LoadFacts of the lines of the snapshot appends exactly those statements.
C30_StatementsNormalized ==
    /\ [](\A k \in 1 .. Len(facts) : NormalForm(facts[k]))
    /\ [][ (pc[1] = "l_loop" /\ pc'[1] = "done" /\ arg[1] = Join(entryFacts[1])
                /\ entryFacts[1] # <<>>)
              => (res'[1].err = "nil" /\ facts' = entryFacts[1] \o entryFacts[1])
         ]_vars

\* C30 witness: a load appended a statement to a stored one, and the
\* snapshot of the two has been loaded again.
C30_Witness ==
    /\ pc[1] = "done"
    /\ facts = << <<"b", Dot>>, <<"a", Dot>>, <<"b", Dot>>, <<"a", Dot>> >>
    /\ arg[1] = <<"b", Dot, NL, "a", Dot>>

----------------------------------------------------------------------------
(* The HTTP mode of main: the handler builds a server with an engine of its
   own for every incoming call.  A call loads a text, runs a query, or does
   both; the engines of calls in progress run side by side. *)

SessionCalls ==
    { ToolCall("prolog_load_facts", RulesA, <<>>),
      ToolCall("prolog_query", <<>>, QA),
      ToolCall("prolog_explain_solution", RulesB, QB) }

\* What the solver makes of the file it is given: it fails on a missing
\* file, and on a program it ends in any of the ways of GateRuns.
RunsOn(file) == IF file.exists THEN GateRuns ELSE Killed

\* The tools registered by RegisterTools that start with LoadFacts:
\* prolog_load_facts, and prolog_explain_solution when it is given facts.
Loads(call) ==
    \/ call.tool = "prolog_load_facts"
    \/ call.tool = "prolog_explain_solution" /\ call.facts # <<>>

At(s, at) == sess[s].at = at
To(s, at) == sess' = [sess EXCEPT ![s].at = at]

\* time.Now() moves on.
Tick ==
    /\ nano < MaxNano
    /\ nano' = nano + 1
    /\ UNCHANGED <<sess, files>>

\* createSessionServer for an incoming call: NewEngine gives an engine with
\* no facts, or fails when the solver binary is not found, and then the
\* call is rejected without a server.
createSessionServer(s, call) ==
    /\ At(s, "none")
    /\ \/ sess' = [sess EXCEPT ![s] =
                     [NoSession EXCEPT !.call = call,
                                       !.at = IF Loads(call) THEN "load" ELSE "query"]]
       \/ sess' = [sess EXCEPT ![s] = [NoSession EXCEPT !.at = "rejected"]]
    /\ UNCHANGED <<files, nano>>

\* LoadFacts on the engine of the session.
SessionLoadFacts(s) ==
    /\ At(s, "load")
    /\ sess' = [sess EXCEPT
                  ![s].facts = sess[s].facts \o ExpectedStatements(sess[s].call.facts),
                  ![s].at = IF sess[s].call.tool = "prolog_load_facts"
                            THEN "respond" ELSE "query"]
    /\ UNCHANGED <<files, nano>>

\* Query on the engine of the session, up to the call of executeQueryBatch.
SessionQuery(s) ==
    /\ At(s, "query")
    /\ IF TrimSpace(sess[s].call.query) = <<>>
       THEN sess' = [sess EXCEPT
                       ![s].res = QueryOutcome(FALSE, <<>>, "Empty query provided"),
                       ![s].at = "respond"]
       ELSE To(s, "create")
    /\ UNCHANGED <<files, nano>>

\* createTempFile: the name is made of time.Now().UnixNano() and the
\* constant "query.pl", and is appended to the tempFiles of the engine.
createTempFile(s) ==
    /\ At(s, "create")
    /\ sess' = [sess EXCEPT ![s].name = nano,
                            ![s].tempFiles = Append(sess[s].tempFiles, nano),
                            ![s].at = "write"]
    /\ UNCHANGED <<files, nano>>

\* ioutil.WriteFile(tempFile, ...): the program is written under the name,
\* or the write fails and executeQueryBatch returns its error; a failed
\* write leaves no file, or the file opened and emptied.
SessionWriteFile(s) ==
    /\ At(s, "write")
    /\ \/ /\ files' = [files EXCEPT ![sess[s].name] =
                         File(files[sess[s].name], s, sess[s].facts,
                              TrimSuffix(TrimSpace(sess[s].call.query), Dot))]
          /\ To(s, "run")
       \/ /\ sess' = [sess EXCEPT
                        ![s].res = QueryOutcome(FALSE, <<>>, "failed to write query file"),
                        ![s].at = "remove"]
          /\ \/ UNCHANGED files
             \/ files' = [files EXCEPT ![sess[s].name] =
                            File(files[sess[s].name], s, <<>>, <<>>)]
    /\ UNCHANGED nano

\* cmd.CombinedOutput(): the solver runs on the file that has the name now.
SessionCombinedOutput(s) ==
    /\ At(s, "run")
    /\ \E r \in RunsOn(files[sess[s].name]) \cup Killed :
          sess' = [sess EXCEPT
                     ![s].ran = files[sess[s].name],
                     ![s].res = IF r.failed
                                THEN QueryOutcome(FALSE, r.output, "execution failed")
                                ELSE QueryOutcome(Contains(r.output, MarkerTrue), r.output, ""),
                     ![s].at = "remove"]
    /\ UNCHANGED <<files, nano>>

\* The deferred os.Remove(tempFile) of executeQueryBatch, which runs on
\* every return; after it Query returns to the tool.
RemoveOnSuccessOnly(s) ==
    /\ At(s, "remove")
    /\ files' = [files EXCEPT ![sess[s].name] =
                    IF sess[s].res.Error = "" THEN NoFile ELSE files[sess[s].name]]
    /\ To(s, "respond")
    /\ UNCHANGED nano

Remove(s) ==
    /\ At(s, "remove")
    /\ files' = [files EXCEPT ![sess[s].name] = NoFile]
    /\ To(s, "respond")
    /\ UNCHANGED nano

\* The response is written and the server of the call, with its engine, is
\* dropped.
SessionRespond(s) ==
    /\ At(s, "respond")
    /\ sess' = [sess EXCEPT ![s] = [NoSession EXCEPT !.at = "sent"]]
    /\ UNCHANGED <<files, nano>>

\* The sessions do not touch the engine, the tools and the loop of the
\* stdio mode.
StdioUnchanged == UNCHANGED <<engineVars, toolVars, protoVars, waiting>>

NextSessions ==
    \/ Tick /\ StdioUnchanged
    \/ \E s \in Sessions : \E call \in SessionCalls :
          createSessionServer(s, call) /\ StdioUnchanged
    \/ \E s \in Sessions : SessionLoadFacts(s) /\ StdioUnchanged
    \/ \E s \in Sessions : SessionQuery(s) /\ StdioUnchanged
    \/ \E s \in Sessions : createTempFile(s) /\ StdioUnchanged
    \/ \E s \in Sessions : SessionWriteFile(s) /\ StdioUnchanged
    \/ \E s \in Sessions : SessionCombinedOutput(s) /\ StdioUnchanged
    \/ \E s \in Sessions : Remove(s) /\ StdioUnchanged
    \/ \E s \in Sessions : SessionRespond(s) /\ StdioUnchanged

SpecSessions == Init /\ [][NextSessions]_vars

\* The sessions that hold a transient file name: from createTempFile to the
\* deferred os.Remove.
Holding == {s \in Sessions : sess[s].at \in {"write", "run", "remove"}}

\* C22: two sessions that hold a transient file name hold different names,
\* and the file a solver process read was written by its own session.
C22_NamesNeverShared ==
    /\ \A s \in Holding : \A t \in Holding : s # t => sess[s].name # sess[t].name
    /\ \A s \in Sessions : sess[s].ran.exists => sess[s].ran.from = s

\* C23: once Query has returned in a session, no file that this Query
\* created exists under its name, however executeQueryBatch ended.
C23_NoFileAfterQuery ==
    \A s \in Sessions :
        (sess[s].at = "respond" /\ sess[s].tempFiles # <<>>)
            => ~(files[sess[s].name].exists /\ files[sess[s].name].by = s)

\* C23 witness: a Query has returned the failure of its solver process,
\* which had read the file written for it, and the file is gone.
C23_Witness ==
    /\ sess[1].at = "respond"
    /\ sess[1].res.Error = "execution failed"
    /\ sess[1].ran.exists /\ sess[1].ran.by = 1
    /\ ~files[sess[1].name].exists

\* C21: the program that a prolog_query call runs holds no statement, since
\* the engine that serves the call is new and the call loads nothing.
C21_CallsAreIsolated ==
    [][ \A p \in Procs :
            (pc[p] = "q_build" /\ pc'[p] = "q_run" /\ tool[p].name = "prolog_query")
                => prog'[p].kb = <<>>
      ]_vars

----------------------------------------------------------------------------
(* The order of admission to the gate. *)

\* Goroutine p acquires the mutex in this step.
Admitted(p) == pc[p] \in LockPc /\ pc'[p] \notin LockPc

\* C24: while goroutines are blocked in Lock, the goroutine that acquires
\* the mutex is the one that has been blocked the longest.
C24_AdmittedInArrivalOrder ==
    [][ \A p \in Procs : Admitted(p) => (waiting = <<>> \/ Head(waiting) = p) ]_vars

----------------------------------------------------------------------------
(* Cancellation and deadlines. *)

\* Two goroutines call Query and LoadFacts of one engine under one context,
\* which may be cancelled at any time.
NextCancel ==
    \/ /\ \E p \in Procs :
             \/ QueryCall(p, QueryTexts)
             \/ LoadFactsCall(p, { <<"a">> })
             \/ Step(p, GateRuns)
       /\ UNCHANGED <<toolVars, protoVars>>
       /\ Elsewhere
    \/ Cancel /\ Elsewhere

SpecCancel == Init /\ [][NextCancel]_vars

\* C27: under a context that is done, the step that runs the solver returns
\* a QueryResult with Success=false and a non-empty Error and no error
\* value, and releases the mutex; a Query blocked in Lock stays there until
\* the mutex is free and then enters; and on an open engine with a non-empty
\* query it goes on to the solver invocation.
C27_CancelledQueryFailsInSolver ==
    [][ \A p \in Procs :
            ctxDone =>
                /\ (pc[p] = "q_run" /\ Moves(p))
                      => /\ pc'[p] = "done"
                         /\ res'[p].err = "nil"
                         /\ ~res'[p].Success
                         /\ res'[p].Error # ""
                         /\ mutex' = NoHolder
                /\ (pc[p] = "q_lock" /\ Moves(p))
                      => (mutex = NoHolder /\ pc'[p] = "q_in" /\ mutex' = p)
                /\ (pc[p] = "q_in" /\ Moves(p) /\ ~closed /\ TrimSpace(arg[p]) # <<>>)
                      => pc'[p] = "q_build"
                /\ (pc[p] = "q_build" /\ Moves(p))
                      => \/ pc'[p] = "q_run"
                         \/ (pc'[p] = "done" /\ ~res'[p].Success /\ res'[p].Error # "")
      ]_vars

\* C27 witness: after the context was cancelled, one Query has returned the
\* failure of its solver invocation and released the mutex, and the Query
\* that waited behind it is now in its own solver invocation.
C27_Witness ==
    /\ ctxDone
    /\ pc[1] = "done" /\ op[1] = "Query"
    /\ res[1].err = "nil" /\ res[1].Error = "execution failed"
    /\ pc[2] = "q_run"

----------------------------------------------------------------------------
(* Failures and the end of the serve loop. *)

\* The last response written reports a failure: an error object, or a tool
\* result flagged as an error.
LastResponseFailed ==
    /\ stdout # <<>>
    /\ \/ stdout[Len(stdout)].error # NilError
       \/ stdout[Len(stdout)].result.tool.isError

\* C28: with no Close called, the engine is never closed and the serve loop
\* has returned only if its context was cancelled; and when the loop is back
\* in decoder.Decode after a failure, the next request on stdin is decoded
\* for handling.
C28_OnlyCloseIsFatal ==
    /\ ~closed
    /\ loop = "returned" => ctxDone
    /\ (LastResponseFailed /\ loop = "decode" /\ nread < MaxFrames)
          => ENABLED DecodeFrame(1, ToolFrame("prolog_query", TRUE, With(NoArgs, "query", Str(QA))))

\* C29: once the context is cancelled and until ServeSTDIO has returned, the
\* goroutine of the loop has a step to take that needs no frame from stdin.
C29_CancelledLoopReturns ==
    (ctxDone /\ loop # "returned")
        => ENABLED (\/ Select(1)
                    \/ DecodeKeptError(1)
                    \/ handleRequest(1)
                    \/ Handlers(1)
                    \/ EngineStep(1, ToolRuns))

----------------------------------------------------------------------------
(* Query: the empty text, the goal of the driver clause, and the runs of the
   solver. *)

\* Goroutine p takes a step of the Query it is in.
QueryStep(p, at) ==
    /\ op[p] = "Query" /\ pc[p] = at
    /\ (pc'[p] # pc[p] \/ prog'[p] # prog[p])

\* C31: on an open engine a Query whose text is empty after trimming returns
\* from its check a QueryResult with Success=false, an Error that is not
\* empty and no error value, and neither its wait for the mutex nor its
\* check names a file, builds or runs a program, or changes the facts.
C31_EmptyQueryIsOutcome ==
    [][ \A p \in Procs :
            TrimSpace(arg[p]) = <<>> =>
                /\ (QueryStep(p, "q_lock") \/ QueryStep(p, "q_in"))
                      => UNCHANGED <<facts, tempFiles, now, prog, closed>>
                /\ (QueryStep(p, "q_in") /\ ~closed)
                      => /\ pc'[p] = "done"
                         /\ res'[p].err = "nil"
                         /\ ~res'[p].Success
                         /\ res'[p].Error # ""
      ]_vars

\* C31 witness: on an open engine that holds facts, Query(" ") has returned
\* its outcome.
C31_Witness ==
    /\ ~closed /\ facts # <<>>
    /\ pc[1] = "done" /\ op[1] = "Query" /\ arg[1] = <<" ">>
    /\ res[1] = QueryOutcome(FALSE, <<>>, "Empty query provided")

\* C32: the goal of the driver clause of every program written is the
\* trimmed text of the Query without its final period.
C32_GoalIsTrimmedText ==
    [][ \A p \in Procs :
            (QueryStep(p, "q_build") /\ pc'[p] = "q_run")
                => prog'[p].goal = TrimSuffix(TrimSpace(arg[p]), Dot)
      ]_vars

\* The checks of Query send it on to executeQueryBatch exactly on an open
\* engine with a text that is not empty; the solver step runs a program that
\* has not been run, made of the facts as they are stored and the goal, and
\* that step is the last of the Query.
RunsAtMostOnce(p) ==
    /\ QueryStep(p, "q_in")
          => IF closed \/ TrimSpace(arg[p]) = <<>>
             THEN pc'[p] = "done" /\ prog' = prog
             ELSE pc'[p] = "q_build" /\ prog' = prog
    /\ QueryStep(p, "q_run")
          => /\ "run" \notin DOMAIN prog[p]
             /\ prog[p].kb = facts
             /\ prog[p].goal = TrimSuffix(arg[p], Dot)
             /\ "run" \in DOMAIN prog'[p]
             /\ pc'[p] = "done"

\* C33 as stated: every Query on an open engine with a text that is not
\* empty reaches the solver step, and the solver runs once.
C33_SolverRunsExactlyOnce ==
    [][ \A p \in Procs :
            /\ RunsAtMostOnce(p)
            /\ QueryStep(p, "q_build") => pc'[p] = "q_run"
      ]_vars

\* C33 amended: every Query on an open engine with a text that is not empty
\* reaches the solver step and the solver runs once, unless the program
\* file could not be written: then the Query returns that failure as its
\* outcome and the solver is not run.
C33_SolverRunsOnceIfWritten ==
    [][ \A p \in Procs :
            /\ RunsAtMostOnce(p)
            /\ QueryStep(p, "q_build")
                  => \/ pc'[p] = "q_run" /\ prog'[p].kb = facts
                     \/ /\ pc'[p] = "done"
                        /\ res'[p] = QueryOutcome(FALSE, <<>>, "failed to write query file")
                        /\ prog' = prog
      ]_vars

\* C33 witness: with another Query waiting for the mutex, a Query on an
\* engine that holds two statements has run the solver on them and returned.
C33_Witness ==
    /\ pc[1] = "done" /\ op[1] = "Query"
    /\ res[1].err = "nil" /\ res[1].Error = ""
    /\ "run" \in DOMAIN prog[1]
    /\ Len(prog[1].kb) = 2 /\ prog[1].kb = facts
    /\ pc[2] = "q_lock"

----------------------------------------------------------------------------
(* Goals that do not halt. *)

\* Two goroutines call Query, LoadFacts and Close of one engine under a
\* context that has no deadline and is never cancelled; a goal may be one
\* that the solver never finishes.
NextHang ==
    /\ \E p \in Procs :
          \/ QueryCall(p, { QA, Endless })
          \/ LoadFactsCall(p, { RulesA })
          \/ CloseCall(p)
          \/ Step(p, GateRuns)
    /\ UNCHANGED <<toolVars, protoVars>>
    /\ Elsewhere

SpecHang == Init /\ [][NextHang]_vars

\* C34: a Query whose solver process has been started has its return ahead
\* of it, and with it the release of the mutex for the goroutines blocked
\* in Lock.
C34_SolverRunEnds ==
    \A p \in Procs :
        pc[p] = "q_run" => ENABLED (QueryRun(p, GateRuns) /\ mutex' = NoHolder)

----------------------------------------------------------------------------
(* Tools on a closed engine. *)

\* Goroutine 1 calls the tools one after the other; the owner of the engine,
\* on goroutine 2, closes it between two tool calls.
NextClosed ==
    \/ /\ tool[1].at = "none" /\ result[1] = NoResult /\ pc[2] \in {"idle", "done"}
       /\ \E c \in ToolCalls :
             /\ Fits(c.name, "map", c.args)
             /\ CallTool(1, c.name, c.args)
       /\ UNCHANGED protoVars
       /\ Elsewhere
    \/ Handlers(1) /\ Elsewhere
    \/ TakeResult(1) /\ Elsewhere
    \/ EngineStep(1, ToolRuns) /\ Elsewhere
    \/ /\ tool[1].at = "none"
       /\ CloseCall(2) \/ Lock(2) \/ Close(2)
       /\ UNCHANGED <<toolVars, protoVars>>
       /\ Elsewhere

SpecClosed == Init /\ [][NextClosed]_vars

\* The tools whose handlers call the engine's gated methods.
EngineTools ==
    {"prolog_query", "prolog_load_facts", "prolog_clear_kb", "prolog_solve_problem",
     "prolog_explain_solution"}

\* C35: when the handler of a tool that uses the engine, called with
\* arguments of the declared shape, returns on a closed engine, its result
\* is error-flagged.
C35_ClosedEngineIsToolError ==
    [][ \A p \in Procs :
            (/\ HandlerReturns(p)
             /\ closed
             /\ tool[p].name \in EngineTools
             /\ ~ViolatesShape(tool[p].name, tool[p].args))
                => result'[p].isError
      ]_vars

----------------------------------------------------------------------------
(* Tool calls of several callers on one engine. *)

\* The calls that the goroutines make side by side.
SharedCalls ==
    { Tool("prolog_solve_problem", SolveArgs(Str(<<"d">>), Str(RulesB), Arr(<<Str(QA)>>))),
      Tool("prolog_load_facts", With(NoArgs, "facts", Str(RulesA))),
      Tool("prolog_clear_kb", NoArgs) }

\* The statements that the tool calls under way and the call c can still
\* append fit in MaxFacts.
SharedFits(c) ==
    /\ now + Cardinality({q \in Procs : tool[q].name = "prolog_solve_problem"})
          + QueryCount(c.name, c.args) <= MaxQueries
    /\ Len(facts) + 2 * Cardinality({q \in Procs : tool[q].at # "none"})
          + (IF c.name = "prolog_clear_kb" THEN 0 ELSE 2) <= MaxFacts

\* Goroutines 1 .. NumProcs call tools of one LogicTools, and so of one
\* engine, concurrently.
NextShared ==
    \/ /\ \E p \in Procs : \E c \in SharedCalls :
             /\ tool[p].at = "none" /\ result[p] = NoResult
             /\ SharedFits(c)
             /\ CallTool(p, c.name, c.args)
       /\ UNCHANGED protoVars
       /\ Elsewhere
    \/ (\E p \in Procs : Handlers(p)) /\ Elsewhere
    \/ (\E p \in Procs : TakeResult(p)) /\ Elsewhere
    \/ (\E p \in Procs : EngineStep(p, ToolRuns)) /\ Elsewhere

SpecShared == Init /\ [][NextShared]_vars

\* C36: every program that a solve-problem call has the solver run holds
\* exactly the statements of the facts_and_rules of that call, whatever
\* the other goroutines call meanwhile.
C36_SolveIsAtomic ==
    [][ \A p \in Procs :
            (/\ tool[p].name = "prolog_solve_problem"
             /\ pc[p] = "q_build" /\ pc'[p] = "q_run")
                => prog'[p].kb = ExpectedStatements(tool[p].args.facts_and_rules.v)
      ]_vars

----------------------------------------------------------------------------
(* Tool calls rejected for the shape of their arguments. *)

\* A required field of the tool is missing or of another kind than declared.
RequiredViolated(name, args) ==
    \E field \in RequiredFields(name) : args[field].kind # DeclaredKind(field)

\* The result of a handler that rejects its arguments: error-flagged, with
\* the one line that names the parameter.
RejectionMessages ==
    { "Error: 'query' parameter must be a string",
      "Error: 'facts' parameter must be a string",
      "Error: 'code' parameter must be a string",
      "Error: 'problem_description' parameter must be a string",
      "Error: 'facts_and_rules' parameter must be a string",
      "Error: 'queries' parameter must be an array" }
Rejection(r) == r.isError /\ Len(r.text) = 1 /\ r.text[1].msg \in RejectionMessages

\* C37: a handler that finds a required argument missing or of the wrong
\* kind returns from its first step with an error-flagged result, and a
\* handler that returns a rejection does so from its first step; that step
\* calls no method of the engine: the facts, the programs run and every
\* other field of the engine stay as they are.
C37_RejectedCallTouchesNothing ==
    [][ \A p \in Procs :
            /\ (/\ tool[p].impl = "map" /\ tool[p].at = "start"
                /\ tool[p].name \in ToolNames
                /\ RequiredViolated(tool[p].name, tool[p].args)
                /\ tool'[p] # tool[p])
                  => /\ HandlerReturns(p)
                     /\ result'[p].isError
                     /\ UNCHANGED engineVars
            /\ (/\ tool[p].impl = "map"
                /\ HandlerReturns(p)
                /\ Rejection(result'[p]))
                  => /\ tool[p].at = "start"
                     /\ UNCHANGED engineVars
      ]_vars

\* C37 witness: on an engine that holds facts, a solve-problem call whose
\* queries are not an array has been rejected.
C37_Witness ==
    /\ facts # <<>>
    /\ result[1].isError
    /\ result[1].text = <<Line("Error: 'queries' parameter must be an array")>>
    /\ pc[1] = "idle"

----------------------------------------------------------------------------
(* The two prolog_validate_syntax handlers. *)

\* The code texts given to the handlers.
CodeChars == { "a", Dot, "(", NL, Pct }
CodeTexts == TextsOver(CodeChars, MaxTextLen)

\* The handler that RegisterTools adds to the SDK server: it looks for a
\* line of the trimmed code that is neither empty nor a comment and ends
\* with a period.
hasValidStructure(code) ==
    LET ls == Split(TrimSpace(code))
    IN  \E k \in 1 .. Len(ls) :
            /\ keepLine(TrimSpace(ls[k]))
            /\ HasSuffix(TrimSpace(ls[k]), Dot)

\* Its input arrives typed (CodeInput): one string.
ValidateSyntaxInput(p, code) ==
    /\ tool[p].at = "none" /\ pc[p] = "idle" /\ result[p] = NoResult
    /\ tool' = [tool EXCEPT ![p] =
                  [NoTool EXCEPT !.name = "prolog_validate_syntax", !.impl = "sdk",
                                 !.args = With(NoArgs, "code", Str(code)), !.at = "check"]]
    /\ UNCHANGED result
    /\ UNCHANGED <<engineVars, protoVars>>

registeredValidateSyntax(p) ==
    /\ tool[p].impl = "sdk" /\ tool[p].name = "prolog_validate_syntax" /\ tool[p].at = "check"
    /\ Finish(p, ToolResult(
                    <<Line(IF hasValidStructure(tool[p].args.code.v)
                           THEN "Syntax validation: valid"
                           ELSE "Syntax validation: invalid - no statements ending with '.'")>>,
                    FALSE))
    /\ UNCHANGED <<engineVars, protoVars>>

\* Goroutine 1 loads facts and then calls prolog_validate_syntax once,
\* through CallTool or through the registered handler.
NextSyntax ==
    \/ /\ facts = <<>>
       /\ CallTool(1, "prolog_load_facts", With(NoArgs, "facts", Str(RulesB)))
       /\ UNCHANGED protoVars
       /\ Elsewhere
    \/ handleLoadFacts(1) /\ Elsewhere
    \/ /\ Lock(1) \/ LoadFactsEnter(1) \/ LoadFactsLoop(1)
       /\ UNCHANGED <<toolVars, protoVars>>
       /\ Elsewhere
    \/ TakeResult(1) /\ Elsewhere
    \/ /\ \E code \in CodeTexts :
             CallTool(1, "prolog_validate_syntax", With(NoArgs, "code", Str(code)))
       /\ UNCHANGED protoVars
       /\ Elsewhere
    \/ (\E code \in CodeTexts : ValidateSyntaxInput(1, code)) /\ Elsewhere
    \/ handleValidateSyntax(1) /\ Elsewhere
    \/ registeredValidateSyntax(1) /\ Elsewhere
    \/ ValidateQueryRun(1) /\ UNCHANGED <<toolVars, protoVars>> /\ Elsewhere

SpecSyntax == Init /\ [][NextSyntax]_vars

\* The result says that the code is valid.
SaysValid(r) ==
    /\ ~r.isError
    /\ r.text[1].msg \in {"Syntax is valid!", "Syntax validation: valid"}

\* C38: when a prolog_validate_syntax handler returns, its result says
\* valid exactly when ValidateQuery accepts the code and is error-flagged
\* otherwise, and no step of the handler changes the facts, names a file or
\* runs a program.
C38_ValidateToolAgrees ==
    [][ \A p \in Procs :
            tool[p].name = "prolog_validate_syntax" =>
                /\ UNCHANGED <<facts, tempFiles, now, prog, closed>>
                /\ HandlerReturns(p) =>
                      IF ValidateQuery(tool[p].args.code.v) = NoErr
                      THEN SaysValid(result'[p])
                      ELSE result'[p].isError
      ]_vars

----------------------------------------------------------------------------
(* tools/call without an 'arguments' object. *)

\* The request names a tool and its 'arguments' is missing or no object.
WithoutArguments(r) ==
    /\ r.method = "tools/call"
    /\ r.params.kind = "object"
    /\ IsString(r.params.name)
    /\ ~r.params.hasArguments

\* C39: a tools/call request with a name and without an 'arguments' object
\* is dispatched with the empty argument map and is never answered with
\* InvalidParams; prolog_query then answers with a result that holds an
\* error-flagged tool result and no error object, and prolog_clear_kb
\* answers with a success result after the facts were cleared.
C39_MissingArgumentsAreEmpty ==
    [][ \A p \in Procs :
            (request[p] # NoRequest /\ WithoutArguments(request[p])) =>
                /\ (tool[p].at = "none" /\ tool'[p].at # "none")
                      => tool'[p].args = NoArgs /\ stdout' = stdout
                /\ stdout' # stdout =>
                      LET r == stdout'[Len(stdout')]
                          name == Whole(request[p].params.name.v)
                      IN  /\ r.error.code # InvalidParams
                          /\ name = "prolog_query" =>
                                /\ r.error = NilError
                                /\ r.result.kind = "tool"
                                /\ r.result.tool.isError
                          /\ name = "prolog_clear_kb" =>
                                /\ r.error = NilError
                                /\ r.result.kind = "tool"
                                /\ ~r.result.tool.isError
                                /\ facts' = <<>>
      ]_vars

\* The facts were loaded and a prolog_clear_kb request without arguments
\* was answered: the facts are gone.
C39_Witness ==
    /\ Len(stdout) = 2
    /\ facts = <<>>
    /\ request[1] = NoRequest
    /\ stdout[1].result.tool = ToolResult(<<Line("Facts loaded successfully!")>>, FALSE)
    /\ stdout[2].error = NilError
    /\ stdout[2].result.tool = ToolResult(<<Line("Knowledge base cleared successfully!")>>, FALSE)

----------------------------------------------------------------------------
(* The failure layers of prolog_query: the protocol response, the tool
   result, the outcome of the query. *)

\* The prolog_query handler that RegisterTools adds to the SDK server.  Its
\* input arrives typed (QueryInput): one string.
QueryInput(p, query) ==
    /\ tool[p].at = "none" /\ pc[p] = "idle" /\ result[p] = NoResult
    /\ tool' = [tool EXCEPT ![p] =
                  [NoTool EXCEPT !.name = "prolog_query", !.impl = "sdk",
                                 !.args = With(NoArgs, "query", Str(query)), !.at = "start"]]
    /\ UNCHANGED result
    /\ UNCHANGED <<engineVars, protoVars>>

registeredQuery(p) ==
    /\ tool[p].impl = "sdk" /\ tool[p].name = "prolog_query"
    /\ \/ /\ tool[p].at = "start"
          /\ Call(p, "Query", tool[p].args.query.v, "q_lock")
          /\ Goto(p, "queried", <<>>)
       \/ /\ tool[p].at = "queried"
          /\ Return(p)
          /\ Finish(p, IF res[p].err # "nil"
                       THEN ToolResult(<<FailedLine("Failed to execute query", 0,
                                                    tool[p].args.query.v, res[p])>>, TRUE)
                       ELSE ToolResult(<<QueryLine("Query result", 0,
                                                   tool[p].args.query.v, res[p])>>, FALSE))
    /\ UNCHANGED protoVars

\* The prolog_query requests on stdin: a goal, a blank text, a number, no
\* arguments.
QueryFrames ==
    { ToolFrame("prolog_query", TRUE, With(NoArgs, "query", x)) :
        x \in {Str(QA), Str(<<" ">>), Num} }
      \cup { ToolFrame("prolog_query", FALSE, NoArgs) }

\* The solver proves the goal, does not prove it, or fails.
LayerRuns == ToolRuns \cup GateRuns

\* Goroutine 1 runs ServeSTDIO and answers prolog_query requests; goroutine
\* 2, the owner of the engine, calls the registered prolog_query handler
\* and may close the engine.
NextLayers ==
    \/ /\ nread < MaxFrames
       /\ \E frame \in QueryFrames : FrameFits(frame) /\ DecodeFrame(1, frame)
       /\ Elsewhere
    \/ Select(1) /\ Elsewhere
    \/ handleRequest(1) /\ Elsewhere
    \/ handleQuery(1) /\ Elsewhere
    \/ /\ \E q \in QueryTexts :
             /\ Fits("prolog_query", "sdk", With(NoArgs, "query", Str(q)))
             /\ QueryInput(2, q)
       /\ Elsewhere
    \/ registeredQuery(2) /\ Elsewhere
    \/ TakeResult(2) /\ Elsewhere
    \/ (\E p \in {1, 2} : EngineStep(p, LayerRuns)) /\ Elsewhere
    \/ /\ tool[2].at = "none"
       /\ CloseCall(2) \/ Close(2) \/ Return(2)
       /\ UNCHANGED <<toolVars, protoVars>>
       /\ Elsewhere

SpecLayers == Init /\ [][NextLayers]_vars

\* C40: a prolog_query handler returns a tool result and no error, and the
\* result is error-flagged exactly when 'query' is not a string or Query
\* returned the closed-engine error, so never for an outcome with Success =
\* false; the response to a prolog_query request holds that tool result and
\* no error object.
C40_FailureLayersStaySeparate ==
    [][ \A p \in Procs :
            /\ (HandlerReturns(p) /\ tool[p].name = "prolog_query") =>
                  /\ result'[p].err = "nil"
                  /\ result'[p].isError <=>
                        \/ ~IsString(tool[p].args.query)
                        \/ res[p].err = ErrClosed.err
            /\ (/\ stdout' # stdout
                /\ request[p] # NoRequest
                /\ request[p].params.kind = "object"
                /\ request[p].params.name = Str(<<"prolog_query">>)) =>
                  /\ stdout'[Len(stdout')].error = NilError
                  /\ stdout'[Len(stdout')].result = [kind |-> "tool", tool |-> result[p]]
      ]_vars

\* The first request ran a query whose solver failed and was answered with a
\* tool result that is not error-flagged; the engine was closed, and the
\* second request was answered with an error-flagged tool result.
C40_Witness ==
    /\ closed
    /\ Len(stdout) = 2
    /\ stdout[1].error = NilError
    /\ ~stdout[1].result.tool.isError
    /\ ~stdout[1].result.tool.text[1].success
    /\ stdout[1].result.tool.text[1].error # ""
    /\ stdout[2].error = NilError
    /\ stdout[2].result.tool.isError
    /\ stdout[2].result.tool.text[1].error = ErrClosed.err

====
